---- MODULE Spec2Model ----
(***************************************************************************)
(* Model of the dependency review policy engine (src/src/review-engine.ts) *)
(* and of the SPDX helpers it calls (src/src/spdx.ts).                     *)
(*                                                                         *)
(* Representation.                                                         *)
(*  - An optional value (undefined / null in the source) is a set with at  *)
(*    most one element: None is {} and Some(x) is {x}.                     *)
(*  - A package URL and every string matched against it is a tuple of      *)
(*    one-character strings, so startsWith / includes / split are computed *)
(*    character by character.                                              *)
(*  - A license string is the tuple of its blank-separated tokens.         *)
(*  - The arrays of the result hold references to entries of the change    *)
(*    list; a reference is the position of the entry in the list, so a     *)
(*    result array is a tuple of positions.                                *)
(***************************************************************************)
EXTENDS Integers, Sequences, FiniteSets, TLC

\* the engine: its config, the change list it was handed, the value analyze
\* returned, and how far the caller is
VARIABLES config, changes, results, pc

\* the scorecard service: the list getScorecardLevels was handed, the state
\* of the lookup of each change, the two maps of the service, the outbound
\* scorecard requests in the order they were issued, the state of the
\* promise getScorecardLevels returned and the value it was fulfilled with
VARIABLES scorecardChanges, lookups, cache, pendingRequests, requests,
          levels, scorecardData

\* the command line run: how far it is, the status the process exited with,
\* and the kind of error that was thrown, if one was
VARIABLES cliPc, exitCode, failure

\* the pull request commenter: the comments of the pull request, how far
\* the call of commentOnPr is, the write it has requested, what the call
\* under way or last made was asked and did, and how many calls were made
VARIABLES prComments, commenterPc, pendingWrite, commentCall, callsMade

\* the output formatter: the format it was constructed with, and the
\* rendering it has returned, if any
VARIABLES outputFormat, output

engineVars == <<config, changes, results, pc>>

commenterVars == <<prComments, commenterPc, pendingWrite, commentCall, callsMade>>

formatterVars == <<outputFormat, output>>

\* the inputs of the run: the flags on the command line, the options the
\* handler hands to the loader and the config file they may name
VARIABLES argv, cliOptions, configFile

cliVars == <<cliPc, exitCode, failure, argv, cliOptions, configFile>>

scorecardVars ==
    <<scorecardChanges, lookups, cache, pendingRequests, requests, levels,
      scorecardData>>

vars == <<engineVars, scorecardVars, cliVars, commenterVars, formatterVars>>

----------------------------------------------------------------------------
(* Optional values and array helpers *)

None == {}

Some(x) == {x}

\* x && x.length > 0 for an optional array
NonEmptyList(opt) == \E l \in opt : Len(l) > 0

\* Array.prototype.includes
Includes(arr, x) == \E i \in 1..Len(arr) : arr[i] = x

\* opt?.includes(x) for an optional array (undefined is falsy)
OptIncludes(opt, x) == \E l \in opt : Includes(l, x)

\* the positions 1..n of an array, as an array
Positions(arr) == [i \in 1..Len(arr) |-> i]

\* all arrays over S of length at most n
SeqsUpTo(S, n) == UNION {[1..k -> S] : k \in 0..n}

----------------------------------------------------------------------------
(* Strings as tuples of characters *)

\* String.prototype.startsWith
startsWith(s, p) == Len(p) <= Len(s) /\ SubSeq(s, 1, Len(p)) = p

\* String.prototype.endsWith
endsWith(s, p) == Len(p) <= Len(s) /\ SubSeq(s, Len(s) - Len(p) + 1, Len(s)) = p

\* String.prototype.includes
strIncludes(s, sub) ==
    \E k \in 0..(Len(s) - Len(sub)) : SubSeq(s, k + 1, k + Len(sub)) = sub

\* s.split("@")[0]: the part of s before its first "@", or all of s
splitAtFirst(s) ==
    IF \E i \in 1..Len(s) : s[i] = "@"
    THEN SubSeq(s, 1, (CHOOSE i \in 1..Len(s) :
                          s[i] = "@" /\ \A j \in 1..(i - 1) : s[j] # "@") - 1)
    ELSE s

----------------------------------------------------------------------------
(* SPDX helpers (src/src/spdx.ts).                                         *)
(* A license string is the tuple of its tokens.  The expressions of the    *)
(* model are disjunctions  id OR id OR ...  of license identifiers; the    *)
(* parser and the satisfaction libraries are third-party code, modelled on *)
(* this fragment only (no AND, no WITH, no version ranges).                *)

\* the license identifiers the SPDX parser knows
KnownLicenseIds == {"MIT", "Apache-2.0", "GPL-3.0", "LicenseRef-clearlydefined-OTHER"}

\* spdx-expression-parse accepts  id (OR id)*  over known identifiers and
\* throws on everything else (empty input, unknown token, dangling operator)
parseThrows(expr) ==
    \/ Len(expr) = 0
    \/ Len(expr) % 2 = 0
    \/ \E i \in 1..Len(expr) :
          IF i % 2 = 1 THEN expr[i] \notin KnownLicenseIds ELSE expr[i] # "OR"

\* the parse result: the set of the alternatives of the expression
parse(expr) == {expr[i] : i \in {j \in 1..Len(expr) : j % 2 = 1}}

\* faulty variant: no pre-screening, every expression passes as valid
isValid_AcceptsAll(candidateExpr) == TRUE

isValid(candidateExpr) == ~parseThrows(candidateExpr)

\* rewrites every token OTHER
cleanInvalidSPDX(spdxExpr) ==
    [i \in 1..Len(spdxExpr) |->
        IF spdxExpr[i] = "OTHER" THEN "LicenseRef-clearlydefined-OTHER"
        ELSE spdxExpr[i]]

\* allow.join(" OR ")
joinOR(list) ==
    [i \in 1..(IF Len(list) = 0 THEN 0 ELSE 2 * Len(list) - 1) |->
        IF i % 2 = 1 THEN list[(i + 1) \div 2] ELSE "OR"]

\* spdx-satisfies on two expressions: some alternative of the first is
\* among the licenses of the second; a parse error of either one throws
spdxSatisfiesThrows(first, second) == parseThrows(first) \/ parseThrows(second)

spdxSatisfies(first, second) == parse(first) \cap parse(second) # {}

\* faulty variant: every alternative of the candidate must be in the range
satisfies_AllAlternatives(candidateExpr, range) ==
    LET cleaned == cleanInvalidSPDX(candidateExpr)
    IN  IF spdxSatisfiesThrows(cleaned, range) THEN FALSE
        ELSE parse(cleaned) \subseteq parse(range)

\* satisfies(candidateExpr, range): a throw of the library is caught as false
satisfies(candidateExpr, range) ==
    LET cleaned == cleanInvalidSPDX(candidateExpr)
    IN  IF spdxSatisfiesThrows(cleaned, range) THEN FALSE
        ELSE spdxSatisfies(cleaned, range)

\* satisfiesAny(candidateExpr, licenses): the expression satisfies one of
\* the listed licenses; a throw of the library is caught as false
satisfiesAny(candidateExpr, licenses) ==
    LET cleaned == cleanInvalidSPDX(candidateExpr)
    IN  IF \/ parseThrows(cleaned)
           \/ \E i \in 1..Len(licenses) : parseThrows(<<licenses[i]>>)
        THEN FALSE
        ELSE \E i \in 1..Len(licenses) : spdxSatisfies(cleaned, <<licenses[i]>>)

----------------------------------------------------------------------------
(* ReviewEngine (src/src/review-engine.ts) *)

severityOrder == [low |-> 0, moderate |-> 1, high |-> 2, critical |-> 3]

\* faulty variant: the change kind is not tested
isVulnerableChange_AnyKind(cfg, change) ==
    IF change.scope # None /\ \A s \in change.scope : ~Includes(cfg.failOnScopes, s)
    THEN FALSE
    ELSE \E k \in 1..Len(change.vulnerabilities) :
            LET vuln == change.vulnerabilities[k]
            IN  IF OptIncludes(cfg.ghsas.allow, vuln.advisory_ghsa_id) THEN FALSE
                ELSE severityOrder[vuln.severity] >= severityOrder[cfg.failOnSeverity]

\* faulty variant: the severity must exceed the threshold
isVulnerableChange_Above(cfg, change) ==
    IF change.change_type # "added" THEN FALSE
    ELSE IF change.scope # None /\ \A s \in change.scope : ~Includes(cfg.failOnScopes, s)
    THEN FALSE
    ELSE \E k \in 1..Len(change.vulnerabilities) :
            LET vuln == change.vulnerabilities[k]
            IN  IF OptIncludes(cfg.ghsas.allow, vuln.advisory_ghsa_id) THEN FALSE
                ELSE severityOrder[vuln.severity] > severityOrder[cfg.failOnSeverity]

\* faulty variant: a change without a scope is held not to be in failOnScopes
isVulnerableChange_ScopeRequired(cfg, change) ==
    IF change.change_type # "added" THEN FALSE
    ELSE IF \A s \in change.scope : ~Includes(cfg.failOnScopes, s)
    THEN FALSE
    ELSE \E k \in 1..Len(change.vulnerabilities) :
            LET vuln == change.vulnerabilities[k]
            IN  IF OptIncludes(cfg.ghsas.allow, vuln.advisory_ghsa_id) THEN FALSE
                ELSE severityOrder[vuln.severity] >= severityOrder[cfg.failOnSeverity]

\* faulty variant: the comparison with the threshold is reversed
isVulnerableChange_Below(cfg, change) ==
    IF change.change_type # "added" THEN FALSE
    ELSE IF change.scope # None /\ \A s \in change.scope : ~Includes(cfg.failOnScopes, s)
    THEN FALSE
    ELSE \E k \in 1..Len(change.vulnerabilities) :
            LET vuln == change.vulnerabilities[k]
            IN  IF OptIncludes(cfg.ghsas.allow, vuln.advisory_ghsa_id) THEN FALSE
                ELSE severityOrder[vuln.severity] <= severityOrder[cfg.failOnSeverity]

\* the predicate of the filter over one change
isVulnerableChange(cfg, change) ==
    IF change.change_type # "added" THEN FALSE
    ELSE IF change.scope # None /\ \A s \in change.scope : ~Includes(cfg.failOnScopes, s)
    THEN FALSE
    ELSE \E k \in 1..Len(change.vulnerabilities) :
            LET vuln == change.vulnerabilities[k]
            IN  IF OptIncludes(cfg.ghsas.allow, vuln.advisory_ghsa_id) THEN FALSE
                ELSE severityOrder[vuln.severity] >= severityOrder[cfg.failOnSeverity]

filterVulnerableChanges(cfg, chs) ==
    SelectSeq(Positions(chs), LAMBDA i : isVulnerableChange(cfg, chs[i]))

isPackageInLicenseExclusions(cfg, packageUrl) ==
    IF ~NonEmptyList(cfg.licenseCheckExclusions) THEN FALSE
    ELSE \E list \in cfg.licenseCheckExclusions :
            \E k \in 1..Len(list) :
               LET excludedPackage == list[k]
                   pkgWithoutVersion == splitAtFirst(packageUrl)
               IN  \/ packageUrl = excludedPackage
                   \/ startsWith(packageUrl, excludedPackage)
                   \/ pkgWithoutVersion = excludedPackage
                   \/ /\ endsWith(excludedPackage, <<"/">>)
                      /\ startsWith(pkgWithoutVersion, excludedPackage)

\* !change.license: null, undefined and the empty string are falsy
licenseIsFalsy(license) == license = None \/ license = Some(<<>>)

\* the try block of the loop body, reached with a truthy license other
\* than NOASSERTION.  isValid and the satisfies functions catch their own
\* errors, so the catch block (a push to unresolved) is never entered.
policyPushes(cfg, license) ==
    IF NonEmptyList(cfg.licenses.allow)
    THEN IF isValid(license)
         THEN LET allow == CHOOSE l \in cfg.licenses.allow : TRUE
              IN  IF ~satisfies(license, joinOR(allow))
                  THEN <<"forbidden">> ELSE <<>>
         ELSE <<"unresolved">>
    ELSE IF NonEmptyList(cfg.licenses.deny)
    THEN IF isValid(license)
         THEN LET deny == CHOOSE l \in cfg.licenses.deny : TRUE
              IN  IF satisfiesAny(license, deny)
                  THEN <<"forbidden">> ELSE <<>>
         ELSE <<"unresolved">>
    ELSE <<>>

\* faulty variant: the NOASSERTION sentinel is not tested
licensePushes_NoSentinel(cfg, change) ==
    IF change.change_type # "added" THEN <<>>
    ELSE IF licenseIsFalsy(change.license) THEN <<"unlicensed">>
    ELSE IF /\ cfg.licenseCheckExclusions # None
            /\ isPackageInLicenseExclusions(cfg, change.package_url)
    THEN <<>>
    ELSE policyPushes(cfg, CHOOSE l \in change.license : TRUE)

\* faulty variant: no continue after the push of a NOASSERTION license
licensePushes_FallThrough(cfg, change) ==
    IF change.change_type # "added" THEN <<>>
    ELSE IF licenseIsFalsy(change.license) THEN <<"unlicensed">>
    ELSE IF /\ cfg.licenseCheckExclusions # None
            /\ isPackageInLicenseExclusions(cfg, change.package_url)
    THEN <<>>
    ELSE LET license == CHOOSE l \in change.license : TRUE
         IN  (IF license = <<"NOASSERTION">> THEN <<"unlicensed">> ELSE <<>>)
             \o policyPushes(cfg, license)

\* the body of the loop over the changes: the categories the change is
\* pushed to, in the order of the pushes
licensePushes(cfg, change) ==
    IF change.change_type # "added" THEN <<>>
    ELSE IF licenseIsFalsy(change.license) THEN <<"unlicensed">>
    ELSE IF /\ cfg.licenseCheckExclusions # None
            /\ isPackageInLicenseExclusions(cfg, change.package_url)
    THEN <<>>
    ELSE LET license == CHOOSE l \in change.license : TRUE
         IN  IF license = <<"NOASSERTION">> THEN <<"unlicensed">>
             ELSE policyPushes(cfg, license)

\* the positions pushed to one category by the loop from position i on
RECURSIVE pushedTo(_, _, _, _)
pushedTo(cfg, chs, category, i) ==
    IF i > Len(chs) THEN <<>>
    ELSE LET pushes == licensePushes(cfg, chs[i])
             here == SelectSeq(pushes, LAMBDA c : c = category)
         IN  [k \in 1..Len(here) |-> i] \o pushedTo(cfg, chs, category, i + 1)

filterInvalidLicenses(cfg, chs) ==
    [forbidden  |-> pushedTo(cfg, chs, "forbidden", 1),
     unresolved |-> pushedTo(cfg, chs, "unresolved", 1),
     unlicensed |-> pushedTo(cfg, chs, "unlicensed", 1)]

\* faulty variant: a denied group matches anywhere in the package URL
isDeniedChange_GroupAnywhere(cfg, change) ==
    IF change.change_type # "added" THEN FALSE
    ELSE \/ \E list \in cfg.packages.deny :
               \E k \in 1..Len(list) : strIncludes(change.package_url, list[k])
         \/ \E list \in cfg.groups.deny :
               \E k \in 1..Len(list) : strIncludes(change.package_url, list[k])

isDeniedChange(cfg, change) ==
    IF change.change_type # "added" THEN FALSE
    ELSE \/ \E list \in cfg.packages.deny :
               \E k \in 1..Len(list) : strIncludes(change.package_url, list[k])
         \/ \E list \in cfg.groups.deny :
               \E k \in 1..Len(list) : startsWith(change.package_url, list[k])

filterDeniedPackages(cfg, chs) ==
    IF ~NonEmptyList(cfg.packages.deny) /\ ~NonEmptyList(cfg.groups.deny)
    THEN <<>>
    ELSE SelectSeq(Positions(chs), LAMBDA i : isDeniedChange(cfg, chs[i]))

\* faulty variant: warnOnly is not consulted
determineHasIssues_NoWarnOnly(cfg, vulnerableChanges, invalidLicenseChanges, deniedChanges) ==
    \/ Len(vulnerableChanges) > 0
    \/ Len(invalidLicenseChanges.forbidden) > 0
    \/ Len(invalidLicenseChanges.unresolved) > 0
    \/ Len(deniedChanges) > 0

\* faulty variant: unlicensed changes count as issues
determineHasIssues_Unlicensed(cfg, vulnerableChanges, invalidLicenseChanges, deniedChanges) ==
    IF cfg.warnOnly THEN FALSE
    ELSE \/ Len(vulnerableChanges) > 0
         \/ Len(invalidLicenseChanges.forbidden) > 0
         \/ Len(invalidLicenseChanges.unresolved) > 0
         \/ Len(invalidLicenseChanges.unlicensed) > 0
         \/ Len(deniedChanges) > 0

determineHasIssues(cfg, vulnerableChanges, invalidLicenseChanges, deniedChanges) ==
    IF cfg.warnOnly THEN FALSE
    ELSE \/ Len(vulnerableChanges) > 0
         \/ Len(invalidLicenseChanges.forbidden) > 0
         \/ Len(invalidLicenseChanges.unresolved) > 0
         \/ Len(deniedChanges) > 0

\* faulty variant: every change is handed to the scorecard lookup
getScorecardChanges_All(chs) == Positions(chs)

getScorecardChanges(chs) ==
    SelectSeq(Positions(chs), LAMBDA i : chs[i].change_type = "added")

\* the number of vulnerabilities of the given severity in the flagged changes
RECURSIVE countVulns(_, _, _, _)
countVulns(chs, vulnerableChanges, severity, i) ==
    IF i > Len(vulnerableChanges) THEN 0
    ELSE Len(SelectSeq(chs[vulnerableChanges[i]].vulnerabilities,
                       LAMBDA v : v.severity = severity))
         + countVulns(chs, vulnerableChanges, severity, i + 1)

\* faulty variant: the vulnerabilities of every change are counted
generateSummary_AllChanges(allChanges, vulnerableChanges) ==
    LET every    == Positions(allChanges)
        critical == countVulns(allChanges, every, "critical", 1)
        high     == countVulns(allChanges, every, "high", 1)
        moderate == countVulns(allChanges, every, "moderate", 1)
        low      == countVulns(allChanges, every, "low", 1)
    IN  [totalChanges    |-> Len(allChanges),
         added           |-> Len(SelectSeq(allChanges, LAMBDA c : c.change_type = "added")),
         removed         |-> Len(SelectSeq(allChanges, LAMBDA c : c.change_type = "removed")),
         vulnerabilities |-> critical + high + moderate + low,
         criticalVulns   |-> critical,
         highVulns       |-> high,
         moderateVulns   |-> moderate,
         lowVulns        |-> low]

generateSummary(allChanges, vulnerableChanges) ==
    LET critical == countVulns(allChanges, vulnerableChanges, "critical", 1)
        high     == countVulns(allChanges, vulnerableChanges, "high", 1)
        moderate == countVulns(allChanges, vulnerableChanges, "moderate", 1)
        low      == countVulns(allChanges, vulnerableChanges, "low", 1)
    IN  [totalChanges    |-> Len(allChanges),
         added           |-> Len(SelectSeq(allChanges, LAMBDA c : c.change_type = "added")),
         removed         |-> Len(SelectSeq(allChanges, LAMBDA c : c.change_type = "removed")),
         vulnerabilities |-> critical + high + moderate + low,
         criticalVulns   |-> critical,
         highVulns       |-> high,
         moderateVulns   |-> moderate,
         lowVulns        |-> low]

\* the result of analyze, scorecard enrichment left out
analyze(cfg, chs) ==
    LET vulnerableChanges ==
            IF cfg.vulnerabilityCheck THEN filterVulnerableChanges(cfg, chs) ELSE <<>>
        invalidLicenseChanges ==
            IF cfg.licenseCheck THEN filterInvalidLicenses(cfg, chs)
            ELSE [forbidden |-> <<>>, unresolved |-> <<>>, unlicensed |-> <<>>]
        deniedChanges == filterDeniedPackages(cfg, chs)
    IN  [vulnerableChanges     |-> vulnerableChanges,
         invalidLicenseChanges |-> invalidLicenseChanges,
         deniedChanges         |-> deniedChanges,
         hasIssues             |-> determineHasIssues(cfg, vulnerableChanges,
                                       invalidLicenseChanges, deniedChanges),
         summary               |-> generateSummary(chs, vulnerableChanges)]

----------------------------------------------------------------------------
(* ScorecardService (src/unnamed/part_008).                                *)
(* A URL or package name is the tuple of the segments between its slashes: *)
(* https://github.com/o/r is <<"https:", "", "github.com", "o", "r">>.     *)
(* The empty tuple stands for the falsy strings (undefined, null, "").     *)
(* A lookup is one call of getScorecardWithCache; it is "idle" before the  *)
(* call, then waits for deps.dev ("projectUrl"), for the request it issued *)
(* ("owner") or for a request another lookup issued ("waiter"), and ends   *)
(* "settled" with an entry or "rejected".                                  *)

concurrency == 5

\* repositoryUrl?.startsWith('https://')
startsWithHttps(url) == Len(url) >= 3 /\ url[1] = "https:" /\ url[2] = ""

\* repositoryUrl.replace('https://', '') under the test above
stripHttps(url) == IF startsWithHttps(url) THEN SubSeq(url, 3, Len(url)) ELSE url

\* parts[k] of packageName.split('/') inside a template string
part(parts, k) == IF k <= Len(parts) THEN parts[k] ELSE "undefined"

\* the repository URL a change has before deps.dev is asked
localRepositoryUrl(change) ==
    IF change.ecosystem = "actions"
    THEN <<"github.com", part(change.name, 1), part(change.name, 2)>>
    ELSE IF change.source_repository_url = None THEN <<>>
    ELSE stripHttps(CHOOSE u \in change.source_repository_url : TRUE)

\* `scorecard:${repositoryUrl}`
cacheKey(repositoryUrl) == <<"scorecard:">> \o repositoryUrl

\* the body of a successful scorecard response for the repository
ScorecardOf(repositoryUrl) == [repo |-> repositoryUrl]

\* getProjectUrl: the id of the first related project of a successful
\* response, '' for every other response and for a thrown error
getProjectUrl(response) ==
    IF response.kind = "ok" /\ Len(response.relatedProjects) > 0
    THEN response.relatedProjects[1]
    ELSE <<>>

\* getScorecard: how the promise it returns settles for one fetch outcome
getScorecard(repositoryUrl, outcome) ==
    IF outcome = "throw" THEN [rejected |-> TRUE, value |-> None]
    ELSE IF outcome = "ok"
    THEN [rejected |-> FALSE, value |-> Some(ScorecardOf(repositoryUrl))]
    ELSE [rejected |-> FALSE, value |-> None]

\* faulty variant: the error of getScorecard is not caught
fetchScorecard_NoCatch(repositoryUrl, outcome) == getScorecard(repositoryUrl, outcome)

\* fetchScorecard: a rejection of getScorecard is caught and becomes null
fetchScorecard(repositoryUrl, outcome) ==
    LET got == getScorecard(repositoryUrl, outcome)
    IN  IF got.rejected THEN [rejected |-> FALSE, value |-> None] ELSE got

\* faulty variant: only the first chunk is kept
chunkArray_FirstOnly(array, chunkSize) ==
    IF Len(array) = 0 THEN <<>>
    ELSE <<SubSeq(array, 1, IF Len(array) < chunkSize THEN Len(array) ELSE chunkSize)>>

\* chunkArray: consecutive slices of chunkSize elements, the last one shorter
chunkArray(array, chunkSize) ==
    [k \in 1..((Len(array) + chunkSize - 1) \div chunkSize) |->
        SubSeq(array, (k - 1) * chunkSize + 1,
               IF k * chunkSize < Len(array) THEN k * chunkSize ELSE Len(array))]

\* Array.prototype.flat on an array of arrays
RECURSIVE flat(_)
flat(arrays) ==
    IF Len(arrays) = 0 THEN <<>> ELSE Head(arrays) \o flat(Tail(arrays))

\* the state of the service as one value
Service(l, c, p, r) == [lookups |-> l, cache |-> c, pendingRequests |-> p, requests |-> r]

IdleLookup == [state |-> "idle", repositoryUrl |-> <<>>, request |-> 0, scorecard |-> None]

\* a Map is the set of its <<key, value>> pairs
mapHas(map, key) == \E e \in map : e[1] = key

mapGet(map, key) == (CHOOSE e \in map : e[1] = key)[2]

mapDelete(map, key) == {e \in map : e[1] # key}

mapSet(map, key, value) == mapDelete(map, key) \cup {<<key, value>>}

\* getScorecardWithCache from the point where repositoryUrl is known up to
\* its next await or its return
resolveWith(svc, i, repositoryUrl) ==
    LET key == cacheKey(repositoryUrl)
        me  == [svc.lookups[i] EXCEPT !.repositoryUrl = repositoryUrl]
    IN  IF repositoryUrl = <<>>
        THEN [svc EXCEPT !.lookups[i] = [me EXCEPT !.state = "settled"]]
        ELSE IF mapHas(svc.cache, key)
        THEN [svc EXCEPT !.lookups[i] =
                 [me EXCEPT !.state = "settled", !.scorecard = Some(mapGet(svc.cache, key))]]
        ELSE IF mapHas(svc.pendingRequests, key)
        THEN [svc EXCEPT !.lookups[i] =
                 [me EXCEPT !.state = "waiter", !.request = mapGet(svc.pendingRequests, key)]]
        ELSE [svc EXCEPT
                 !.requests = Append(@, [repositoryUrl |-> repositoryUrl,
                                         inFlight |-> TRUE, value |-> None]),
                 !.pendingRequests = mapSet(@, key, Len(svc.requests) + 1),
                 !.lookups[i] =
                     [me EXCEPT !.state = "owner", !.request = Len(svc.requests) + 1]]

\* getScorecardWithCache from its call up to its first await or its return
startLookup(svc, chs, i) ==
    LET repositoryUrl == localRepositoryUrl(chs[i])
    IN  IF repositoryUrl = <<>>
        THEN [svc EXCEPT !.lookups[i] = [@ EXCEPT !.state = "projectUrl"]]
        ELSE resolveWith(svc, i, repositoryUrl)

\* the lookups of a list of positions are called one after the other
RECURSIVE startEach(_, _, _)
startEach(svc, chs, positions) ==
    IF Len(positions) = 0 THEN svc
    ELSE startEach(startLookup(svc, chs, Head(positions)), chs, Tail(positions))

\* chunks.map(chunk => this.processChunk(chunk)): every lookup of every
\* chunk is called, in the order of the list
startChunks(svc, chs) == startEach(svc, chs, flat(chunkArray(Positions(chs), concurrency)))

\* the entry a settled lookup returns
entryOf(svc, chs, i) == [change |-> chs[i], scorecard |-> svc.lookups[i].scorecard]

\* results.flat(): the entries of each chunk in order, chunk after chunk
dependenciesOf(svc, chs) ==
    flat([k \in 1..Len(chunkArray(Positions(chs), concurrency)) |->
            LET chunk == chunkArray(Positions(chs), concurrency)[k]
            IN  [m \in 1..Len(chunk) |-> entryOf(svc, chs, chunk[m])]])

\* the state of the promise of getScorecardLevels once the microtasks ran
levelsOf(svc, chs) ==
    LET called == flat(chunkArray(Positions(chs), concurrency))
    IN  IF \E m \in 1..Len(called) : svc.lookups[called[m]].state = "rejected"
        THEN "rejected"
        ELSE IF \A m \in 1..Len(called) : svc.lookups[called[m]].state = "settled"
        THEN "fulfilled"
        ELSE "pending"

\* faulty variant: the pending entry is removed only after a success
ownerContinues_KeepsFailed(svc, i, settled) ==
    LET key == cacheKey(svc.lookups[i].repositoryUrl)
    IN  IF settled.value = None
        THEN [svc EXCEPT !.lookups[i] = [@ EXCEPT !.state = "settled",
                                                  !.scorecard = settled.value]]
        ELSE [svc EXCEPT
                 !.cache = mapSet(@, key, CHOOSE v \in settled.value : TRUE),
                 !.pendingRequests = mapDelete(@, key),
                 !.lookups[i] = [@ EXCEPT !.state = "settled",
                                          !.scorecard = settled.value]]

\* the continuation of the lookup that issued request q, once the request
\* has settled
ownerContinues(svc, i, settled) ==
    LET key == cacheKey(svc.lookups[i].repositoryUrl)
    IN  IF settled.rejected
        THEN [svc EXCEPT !.pendingRequests = mapDelete(@, key),
                         !.lookups[i] = [@ EXCEPT !.state = "rejected"]]
        ELSE [svc EXCEPT
                 !.cache = IF settled.value # None
                           THEN mapSet(@, key, CHOOSE v \in settled.value : TRUE)
                           ELSE @,
                 !.pendingRequests = mapDelete(@, key),
                 !.lookups[i] = [@ EXCEPT !.state = "settled",
                                          !.scorecard = settled.value]]

\* the continuation of a lookup that waits for a request of another lookup
waiterContinues(svc, i, settled) ==
    IF settled.rejected
    THEN [svc EXCEPT !.lookups[i] = [@ EXCEPT !.state = "rejected"]]
    ELSE [svc EXCEPT !.lookups[i] = [@ EXCEPT !.state = "settled",
                                              !.scorecard = settled.value]]

\* the continuations of all lookups that await request q; a waiter reads
\* nothing but the settled value, so their order is immaterial
RECURSIVE continueEach(_, _, _, _)
continueEach(svc, q, settled, i) ==
    IF i > Len(svc.lookups) THEN svc
    ELSE LET l == svc.lookups[i]
         IN  continueEach(
                 IF l.request = q /\ l.state = "owner" THEN ownerContinues(svc, i, settled)
                 ELSE IF l.request = q /\ l.state = "waiter"
                 THEN waiterContinues(svc, i, settled)
                 ELSE svc,
                 q, settled, i + 1)

\* the service before getScorecardLevels is called
idleService(chs) == Service([i \in 1..Len(chs) |-> IdleLookup], {}, {}, <<>>)

----------------------------------------------------------------------------
(* The inputs: configurations and change lists *)

\* the longest change list handed to analyze
MaxChanges == 2

Severities == {"low", "moderate", "high", "critical"}

\* package URLs and the strings matched against them
UrlFoo == <<"n", "/", "f", "o", "o", "@", "1">>

UrlBar == <<"n", "/", "b", "a", "r", "@", "1">>

ExclFoo == <<"n", "/", "f", "o", "o">>

DenyFoo == <<"f", "o", "o">>

Vuln(severity, id) == [severity |-> severity, advisory_ghsa_id |-> id]

Change(type, scope, license, url, vulns) ==
    [change_type |-> type, scope |-> scope, license |-> license,
     package_url |-> url, vulnerabilities |-> vulns]

\* the configuration of the engine's tests
BaseConfig ==
    [failOnSeverity |-> "low",
     failOnScopes |-> <<"runtime">>,
     licenses |-> [allow |-> None, deny |-> None],
     packages |-> [deny |-> Some(<<>>)],
     groups |-> [deny |-> Some(<<>>)],
     ghsas |-> [allow |-> Some(<<>>)],
     licenseCheckExclusions |-> None,
     licenseCheck |-> TRUE,
     vulnerabilityCheck |-> TRUE,
     warnOnly |-> FALSE]

\* validateConfig's test of the license lists: not both non-empty
licensesAreExclusive(licenses) ==
    ~(NonEmptyList(licenses.allow) /\ NonEmptyList(licenses.deny))

\* the license policies that pass validation: neither list, empty lists,
\* an allow-list, a deny-list (a policy with both lists is rejected)
LicensePolicies ==
    {p \in {[allow |-> None, deny |-> None],
            [allow |-> Some(<<>>), deny |-> Some(<<>>)],
            [allow |-> Some(<<"MIT">>), deny |-> None],
            [allow |-> Some(<<"MIT", "Apache-2.0">>), deny |-> Some(<<>>)],
            [allow |-> None, deny |-> Some(<<"GPL-3.0">>)],
            [allow |-> Some(<<>>), deny |-> Some(<<"GPL-3.0", "MIT">>)],
            [allow |-> Some(<<"MIT">>), deny |-> Some(<<"MIT">>)]} :
        licensesAreExclusive(p)}

\* family 1: the vulnerability settings vary
VulnConfigs ==
    {[BaseConfig EXCEPT !.failOnSeverity = s, !.failOnScopes = sc,
                        !.ghsas = [allow |-> g], !.vulnerabilityCheck = v] :
        s \in Severities,
        sc \in {<<>>, <<"runtime">>, <<"runtime", "development">>},
        g \in {None, Some(<<>>), Some(<<"G1">>)},
        v \in BOOLEAN}

VulnLists ==
    {<<>>,
     <<Vuln("low", "G1")>>,
     <<Vuln("moderate", "G2")>>,
     <<Vuln("high", "G1")>>,
     <<Vuln("critical", "G2")>>,
     <<Vuln("critical", "G1"), Vuln("low", "G2")>>}

VulnChanges ==
    {Change("added", sc, Some(<<"MIT">>), UrlBar, vl) :
        sc \in {None, Some("runtime"), Some("development")}, vl \in VulnLists}
    \cup {Change("removed", None, Some(<<"MIT">>), UrlBar, <<Vuln("critical", "G2")>>)}

\* family 2: the license settings vary
LicenseConfigs ==
    {[BaseConfig EXCEPT !.licenses = p, !.licenseCheckExclusions = e,
                        !.licenseCheck = l] :
        p \in LicensePolicies,
        e \in {None, Some(<<>>), Some(<<ExclFoo>>)},
        l \in BOOLEAN}

Licenses ==
    {None, Some(<<>>), Some(<<"NOASSERTION">>), Some(<<"OTHER">>),
     Some(<<"MIT">>), Some(<<"GPL-3.0">>),
     Some(<<"Apache-2.0", "OR", "GPL-3.0">>)}

LicenseChanges ==
    {Change("added", Some("runtime"), lic, url, <<>>) :
        lic \in Licenses, url \in {UrlFoo, UrlBar}}
    \cup {Change("removed", Some("runtime"), lic, UrlBar, <<>>) :
            lic \in {None, Some(<<"GPL-3.0">>)}}

\* family 3: the toggles vary, over changes flagged in several categories
MixedConfigs ==
    {[BaseConfig EXCEPT !.licenses = p, !.packages = [deny |-> d],
                        !.licenseCheck = l, !.vulnerabilityCheck = v,
                        !.warnOnly = w] :
        p \in {[allow |-> None, deny |-> None],
               [allow |-> Some(<<"MIT">>), deny |-> None],
               [allow |-> None, deny |-> Some(<<"GPL-3.0">>)]},
        d \in {Some(<<>>), Some(<<DenyFoo>>)},
        l \in BOOLEAN, v \in BOOLEAN, w \in BOOLEAN}

MixedChanges ==
    {Change(t, Some("runtime"), p.license, p.url, p.vulns) :
        t \in {"added", "removed"},
        p \in {[license |-> Some(<<"MIT">>), url |-> UrlBar, vulns |-> <<>>],
               [license |-> Some(<<"MIT">>), url |-> UrlBar,
                vulns |-> <<Vuln("critical", "G1")>>],
               [license |-> Some(<<"GPL-3.0">>), url |-> UrlBar, vulns |-> <<>>],
               [license |-> Some(<<"OTHER">>), url |-> UrlBar, vulns |-> <<>>],
               [license |-> None, url |-> UrlBar, vulns |-> <<>>],
               [license |-> Some(<<"MIT">>), url |-> UrlFoo, vulns |-> <<>>],
               [license |-> Some(<<"GPL-3.0">>), url |-> UrlFoo,
                vulns |-> <<Vuln("critical", "G1")>>]}}

\* family 4: the denial settings and the two check toggles vary
UrlScoped == <<"n", "/", "@", "b", "/", "x", "@", "1">>

\* a package URL that holds the denied group, but not at its start
UrlNested == <<"m", "/", "n", "/", "@", "b", "/", "y", "@", "1">>

GroupB == <<"n", "/", "@", "b", "/">>

DenyConfigs ==
    {[BaseConfig EXCEPT !.packages = [deny |-> d], !.groups = [deny |-> g],
                        !.licenseCheck = l, !.vulnerabilityCheck = v] :
        d \in {None, Some(<<>>), Some(<<DenyFoo>>)},
        g \in {None, Some(<<>>), Some(<<GroupB>>)},
        l \in BOOLEAN, v \in BOOLEAN}

DenyChanges ==
    {Change(t, Some("runtime"), Some(<<"MIT">>), url, <<>>) :
        t \in {"added", "removed"},
        url \in {UrlFoo, UrlBar, UrlScoped, UrlNested}}

\* the longest list handed to the scorecard service
MaxLookups == 6

\* how many changes of a list are drawn freely; the rest of the list are
\* further packages of one repository
MaxVaried == 3

RepoOR == <<"github.com", "o", "r">>

RepoPQ == <<"github.com", "p", "q">>

ScChange(ecosystem, name, url) ==
    [ecosystem |-> ecosystem, name |-> name, version |-> "1",
     source_repository_url |-> url]

\* a repository URL with its scheme, a GitHub action, and a package whose
\* repository only deps.dev knows
ScorecardChangeKinds ==
    {ScChange("npm", <<"foo">>, Some(<<"https:", "">> \o RepoOR)),
     ScChange("actions", <<"o", "r", "v4">>, None),
     ScChange("npm", <<"bar">>, None)}

\* a package of the repository the rest of a list comes from
SiblingChange == ScChange("npm", <<"baz">>, Some(<<"https:", "">> \o RepoOR))

\* the lists handed to getScorecardLevels
ScorecardLists ==
    {l \in {head \o [k \in 1..n |-> SiblingChange] :
                head \in SeqsUpTo(ScorecardChangeKinds, MaxVaried), n \in 0..MaxLookups} :
        Len(l) <= MaxLookups}

\* what deps.dev may answer
ProjectUrlResponses ==
    {[kind |-> "ok", relatedProjects |-> <<RepoOR>>],
     [kind |-> "ok", relatedProjects |-> <<RepoPQ>>],
     [kind |-> "ok", relatedProjects |-> <<>>],
     [kind |-> "nonOk", relatedProjects |-> <<>>],
     [kind |-> "throw", relatedProjects |-> <<>>]}

\* what the fetch of a scorecard may do
ScorecardOutcomes == {"ok", "nonOk", "throw"}

\* the families of inputs: configurations and the changes listed for them
InputFamilies ==
    {[configs |-> VulnConfigs, changes |-> VulnChanges],
     [configs |-> LicenseConfigs, changes |-> LicenseChanges],
     [configs |-> MixedConfigs, changes |-> MixedChanges],
     [configs |-> DenyConfigs, changes |-> DenyChanges]}

----------------------------------------------------------------------------
(* The state machine: new ReviewEngine(config), then analyze(comparison) *)

NoResults == analyze(BaseConfig, <<>>)

\* the scorecard service is constructed and not called
ScorecardNotCalled(chs) ==
    /\ scorecardChanges = chs
    /\ lookups = idleService(chs).lookups
    /\ cache = {}
    /\ pendingRequests = {}
    /\ requests = <<>>
    /\ levels = "notCalled"
    /\ scorecardData = None

\* no call of commentOnPr: what a call record holds before any call
NoCall ==
    [mode |-> "never", hasIssues |-> FALSE, lists |-> 0, updates |-> 0,
     creates |-> 0, outcome |-> "none"]

NoWrite == [op |-> "none", comment_id |-> 0]

\* the commenter is constructed and not called, on a pull request with the
\* given comments; the formatter is constructed and not called
CommenterNotCalled(comments) ==
    /\ prComments = comments
    /\ commenterPc = "idle"
    /\ pendingWrite = NoWrite
    /\ commentCall = NoCall
    /\ callsMade = 0
    /\ outputFormat = "summary"
    /\ output = None

\* a command line with no flag, the options it gives, and no config file
NoFlags ==
    [config |-> FALSE, failOnSeverity |-> None, warnOnly |-> FALSE,
     noLicenseCheck |-> FALSE, noVulnerabilityCheck |-> FALSE]

NoOptions == [config |-> FALSE, failOnSeverity |-> None, warnOnly |-> None]

NoFile == [readable |-> FALSE, data |-> [k \in {} |-> FALSE]]

\* the command line program has not run
CliNotStarted ==
    /\ cliPc = "start"
    /\ exitCode = None
    /\ failure = "none"
    /\ argv = NoFlags
    /\ cliOptions = NoOptions
    /\ configFile = NoFile

Init ==
    /\ config \in UNION {f.configs : f \in InputFamilies}
    /\ changes = <<>>
    /\ results = NoResults
    /\ pc = "constructed"
    /\ ScorecardNotCalled(<<>>)
    /\ CliNotStarted
    /\ CommenterNotCalled(<<>>)

\* faulty variant: the call filters the list it is given in place
callAnalyze_InPlace(chs) ==
    /\ changes' = SelectSeq(chs, LAMBDA c : c.change_type = "added")
    /\ results' = analyze(config, chs)
    /\ UNCHANGED <<config, scorecardVars, cliVars, commenterVars, formatterVars>>

\* one call engine.analyze({changes: chs}): the list the caller holds and
\* the engine's config after the call, and the value the call returns
callAnalyze(chs) ==
    /\ changes' = chs
    /\ results' = analyze(config, chs)
    /\ UNCHANGED <<config, scorecardVars, cliVars, commenterVars, formatterVars>>

Analyze ==
    /\ pc = "constructed"
    /\ \E f \in InputFamilies :
          /\ config \in f.configs
          /\ \E chs \in SeqsUpTo(f.changes, MaxChanges) : callAnalyze(chs)
    /\ pc' = "analyzed"

Next == Analyze

Spec == Init /\ [][Next]_vars

\* the engines whose severity threshold varies
InitThreshold ==
    /\ Init
    /\ config \in VulnConfigs

SpecThreshold == InitThreshold /\ [][Next]_vars

\* the engines whose license-check exclusions vary, against packages that
\* equal an exclusion, lie under one, or only begin with the same characters
UrlFooBar == <<"n", "/", "f", "o", "o", "b", "a", "r", "@", "1">>

\* n/foo, n/, n/@b/, and two identifiers with their versions
Exclusions == {ExclFoo, <<"n", "/">>, GroupB, UrlFoo, UrlBar}

ExclusionConfigs ==
    {[BaseConfig EXCEPT !.licenses = [allow |-> None, deny |-> Some(<<"GPL-3.0">>)],
                        !.licenseCheckExclusions = e] :
        e \in {None, Some(<<>>)} \cup {Some(<<x>>) : x \in Exclusions}
              \cup {Some(<<q[1], q[2]>>) :
                    q \in {r \in Exclusions \X Exclusions : r[1] # r[2]}}}

ExclusionChanges ==
    {Change("added", Some("runtime"), Some(<<lic>>), url, <<>>) :
        lic \in {"GPL-3.0", "MIT"},
        url \in {UrlFoo, UrlFooBar, <<"n", "/", "f", "o", "o", "/", "x", "@", "1">>,
                  UrlBar, UrlScoped}}

InitExclusions ==
    /\ config \in ExclusionConfigs
    /\ changes = <<>>
    /\ results = NoResults
    /\ pc = "constructed"
    /\ ScorecardNotCalled(<<>>)
    /\ CliNotStarted
    /\ CommenterNotCalled(<<>>)

AnalyzeExclusions ==
    /\ pc = "constructed"
    /\ \E change \in ExclusionChanges : callAnalyze(<<change>>)
    /\ pc' = "analyzed"

SpecExclusions == InitExclusions /\ [][AnalyzeExclusions]_vars

\* a second call of analyze, handed the list the first call was handed
AnalyzeAgain ==
    /\ pc = "analyzed"
    /\ callAnalyze(changes)
    /\ pc' = "analyzedAgain"

\* the engines that are asked twice: the mixed and the denial configurations
InitRepeat ==
    /\ Init
    /\ config \in MixedConfigs \cup DenyConfigs

NextRepeat == Analyze \/ AnalyzeAgain

SpecRepeat == InitRepeat /\ [][NextRepeat]_vars

----------------------------------------------------------------------------
(* The scorecard service as a state machine: one call of getScorecardLevels *)
(* and the responses of the two remote services, in any order.  A response *)
(* is handled together with every continuation it wakes.                   *)

InitScorecard ==
    /\ config = BaseConfig
    /\ changes = <<>>
    /\ results = NoResults
    /\ pc = "constructed"
    /\ \E chs \in ScorecardLists : ScorecardNotCalled(chs)
    /\ CliNotStarted
    /\ CommenterNotCalled(<<>>)

\* the service takes the state svc; the promise of getScorecardLevels
\* settles if every lookup has settled or one was rejected
serviceBecomes(svc) ==
    /\ lookups' = svc.lookups
    /\ cache' = svc.cache
    /\ pendingRequests' = svc.pendingRequests
    /\ requests' = svc.requests
    /\ levels' = IF levels = "pending" \/ levels = "notCalled"
                 THEN levelsOf(svc, scorecardChanges) ELSE levels
    /\ scorecardData' =
          IF levels' = "fulfilled" THEN Some([dependencies |-> dependenciesOf(svc, scorecardChanges)])
          ELSE None
    /\ UNCHANGED <<scorecardChanges, engineVars, cliVars, commenterVars, formatterVars>>

TheService == Service(lookups, cache, pendingRequests, requests)

\* getScorecardLevels(changes) up to its await
GetScorecardLevels ==
    /\ levels = "notCalled"
    /\ serviceBecomes(startChunks(TheService, scorecardChanges))

\* deps.dev answers the lookup of change i
ProjectUrlResponse ==
    \E i \in 1..Len(lookups) :
        /\ lookups[i].state = "projectUrl"
        /\ \E response \in ProjectUrlResponses :
              serviceBecomes(resolveWith(TheService, i, getProjectUrl(response)))

\* the fetch of scorecard request q ends
ScorecardResponse ==
    \E q \in 1..Len(requests) :
        /\ requests[q].inFlight
        /\ \E outcome \in ScorecardOutcomes :
              LET settled == fetchScorecard(requests[q].repositoryUrl, outcome)
                  ended   == [TheService EXCEPT
                                 !.requests[q] = [@ EXCEPT !.inFlight = FALSE,
                                                           !.value = settled.value]]
              IN  serviceBecomes(continueEach(ended, q, settled, 1))

NextScorecard == GetScorecardLevels \/ ProjectUrlResponse \/ ScorecardResponse

SpecScorecard == InitScorecard /\ [][NextScorecard]_vars

----------------------------------------------------------------------------
(* analyze with the scorecard enrichment (review-engine.ts:21-57): the     *)
(* engine of SpecEnriched has the showOpenSSFScorecard setting, its        *)
(* changes carry the fields both the filters and the lookup read, and the  *)
(* scorecard field of the value analyze returns is scorecardData.          *)

EnrichedChange(type, license, vulns, ecosystem, name, url) ==
    [change_type |-> type, scope |-> Some("runtime"), license |-> license,
     package_url |-> UrlBar, vulnerabilities |-> vulns,
     ecosystem |-> ecosystem, name |-> name, version |-> "1",
     source_repository_url |-> url]

\* an added vulnerable package with a repository, an added package under a
\* denied license whose repository only deps.dev knows, a removed package,
\* and an added action with nothing to flag
EnrichedChanges ==
    {EnrichedChange("added", Some(<<"MIT">>), <<Vuln("critical", "G1")>>,
                    "npm", <<"foo">>, Some(<<"https:", "">> \o RepoOR)),
     EnrichedChange("added", Some(<<"GPL-3.0">>), <<>>, "npm", <<"bar">>, None),
     EnrichedChange("removed", Some(<<"MIT">>), <<Vuln("high", "G2")>>,
                    "npm", <<"baz">>, Some(<<"https:", "">> \o RepoPQ)),
     EnrichedChange("added", Some(<<"MIT">>), <<>>, "actions", <<"o", "r", "v4">>, None)}

EnrichedConfigs ==
    {[failOnSeverity |-> "low",
      failOnScopes |-> <<"runtime">>,
      licenses |-> [allow |-> None, deny |-> Some(<<"GPL-3.0">>)],
      packages |-> [deny |-> Some(<<>>)],
      groups |-> [deny |-> Some(<<>>)],
      ghsas |-> [allow |-> Some(<<>>)],
      licenseCheckExclusions |-> None,
      licenseCheck |-> TRUE,
      vulnerabilityCheck |-> TRUE,
      warnOnly |-> w,
      showOpenSSFScorecard |-> show] : w \in BOOLEAN, show \in BOOLEAN}

InitEnriched ==
    /\ config \in EnrichedConfigs
    /\ changes = <<>>
    /\ results = NoResults
    /\ pc = "constructed"
    /\ ScorecardNotCalled(<<>>)
    /\ CliNotStarted
    /\ CommenterNotCalled(<<>>)

\* this.getScorecardChanges(changes) as the list of changes it returns
scorecardChangesOf(chs) ==
    [k \in 1..Len(getScorecardChanges(chs)) |-> chs[getScorecardChanges(chs)[k]]]

\* analyze up to its return or, with showOpenSSFScorecard, up to its await
\* of getScorecardLevels.  The three filters have run by then; they read
\* config and changes, which nothing writes before analyze continues.
AnalyzeEnriched ==
    /\ pc = "constructed"
    /\ \E chs \in SeqsUpTo(EnrichedChanges, MaxChanges) :
          /\ changes' = chs
          /\ IF config.showOpenSSFScorecard
             THEN LET passed == scorecardChangesOf(chs)
                      svc == startChunks(idleService(passed), passed)
                  IN  /\ scorecardChanges' = passed
                      /\ lookups' = svc.lookups
                      /\ cache' = svc.cache
                      /\ pendingRequests' = svc.pendingRequests
                      /\ requests' = svc.requests
                      /\ levels' = levelsOf(svc, passed)
                      /\ scorecardData' =
                            IF levels' = "fulfilled"
                            THEN Some([dependencies |-> dependenciesOf(svc, passed)])
                            ELSE None
                      /\ pc' = "awaiting"
                      /\ UNCHANGED results
             ELSE /\ results' = analyze(config, chs)
                  /\ pc' = "analyzed"
                  /\ UNCHANGED scorecardVars
    /\ UNCHANGED <<config, cliVars, commenterVars, formatterVars>>

\* analyze after its await: the promise of getScorecardLevels has settled
AnalyzeContinues ==
    /\ pc = "awaiting"
    /\ levels \in {"fulfilled", "rejected"}
    /\ IF levels = "fulfilled"
       THEN results' = analyze(config, changes) /\ pc' = "analyzed"
       ELSE pc' = "threw" /\ UNCHANGED results
    /\ UNCHANGED <<config, changes, scorecardVars, cliVars, commenterVars, formatterVars>>

NextEnriched ==
    AnalyzeEnriched \/ ProjectUrlResponse \/ ScorecardResponse \/ AnalyzeContinues

SpecEnriched == InitEnriched /\ [][NextEnriched]_vars

----------------------------------------------------------------------------
(* OutputFormatter (src/src/output-formatter.ts, the class of lines 155 on) *)
(* A rendering is the record of what the text shows: the status line, the   *)
(* counts of the header as <<name, value>> pairs, the titled sections in    *)
(* order, each with its lines, and whether the next steps are listed.  A    *)
(* line names the package it is about as <<name, version>>, the category    *)
(* its section or its label puts it in, and the detail printed with it.     *)
(* The results come from an engine with showOpenSSFScorecard off, so the    *)
(* scorecard is null, and the comparison has no snapshot warnings.          *)

\* `${change.name}@${change.version}` and the rest of a line
lineOf(chs, i, category, detail) ==
    [package |-> <<chs[i].name, chs[i].version>>, category |-> category, detail |-> detail]

\* a section is printed if it has lines
section(title, lines) ==
    IF Len(lines) > 0 THEN <<[title |-> title, lines |-> lines]>> ELSE <<>>

\* change.license || "Unknown"
licenseOrUnknown(license) == IF licenseIsFalsy(license) THEN Some(<<"Unknown">>) ELSE license

formatJson(res, chs) ==
    [format |-> "json",
     value |-> [summary |-> res.summary,
                vulnerableChanges |-> res.vulnerableChanges,
                invalidLicenseChanges |-> res.invalidLicenseChanges,
                deniedChanges |-> res.deniedChanges,
                scorecard |-> None,
                snapshotWarnings |-> <<>>,
                hasIssues |-> res.hasIssues]]

formatTable(res, chs) ==
    [format |-> "table",
     status |-> None,
     counts |-> {<<k, res.summary[k]>> : k \in DOMAIN res.summary},
     sections |->
        section("Vulnerable Dependencies",
                flat([k \in 1..Len(res.vulnerableChanges) |->
                        LET i == res.vulnerableChanges[k]
                        IN  [m \in 1..Len(chs[i].vulnerabilities) |->
                               lineOf(chs, i, "vulnerable",
                                      <<chs[i].vulnerabilities[m].severity,
                                        chs[i].vulnerabilities[m].advisory_ghsa_id>>)]]))
        \o section("License Issues",
                   [k \in 1..Len(res.invalidLicenseChanges.forbidden) |->
                       LET i == res.invalidLicenseChanges.forbidden[k]
                       IN  lineOf(chs, i, "forbidden", licenseOrUnknown(chs[i].license))])
        \o section("Invalid SPDX License Expressions",
                   [k \in 1..Len(res.invalidLicenseChanges.unresolved) |->
                       LET i == res.invalidLicenseChanges.unresolved[k]
                       IN  lineOf(chs, i, "unresolved", licenseOrUnknown(chs[i].license))]),
     nextSteps |-> FALSE]

\* one entry for each vulnerable change with a critical vulnerability, for
\* each forbidden change and for each denied change, in that order
getCriticalIssues(res, chs) ==
    LET withCritical ==
            SelectSeq(res.vulnerableChanges,
                      LAMBDA i : \E m \in 1..Len(chs[i].vulnerabilities) :
                                    chs[i].vulnerabilities[m].severity = "critical")
    IN  [k \in 1..Len(withCritical) |->
            lineOf(chs, withCritical[k], "vulnerable",
                   Cardinality({m \in 1..Len(chs[withCritical[k]].vulnerabilities) :
                                   chs[withCritical[k]].vulnerabilities[m].severity = "critical"}))]
        \o [k \in 1..Len(res.invalidLicenseChanges.forbidden) |->
               LET i == res.invalidLicenseChanges.forbidden[k]
               IN  lineOf(chs, i, "forbidden", chs[i].license)]
        \o [k \in 1..Len(res.deniedChanges) |->
               lineOf(chs, res.deniedChanges[k], "denied", "Package is explicitly denied")]

\* one group for each package name, in the order the names first occur: the
\* version of the first change of that name, and the vulnerabilities of all
\* changes of that name, the first of each advisory id
groupVulnerabilitiesByPackage(chs, vulnerableChanges) ==
    LET named(k) == chs[vulnerableChanges[k]].name
        heads == SelectSeq([k \in 1..Len(vulnerableChanges) |-> k],
                           LAMBDA k : \A j \in 1..(k - 1) : named(j) # named(k))
        all(h) == flat([k \in 1..Len(vulnerableChanges) |->
                          IF named(k) = named(h)
                          THEN chs[vulnerableChanges[k]].vulnerabilities ELSE <<>>])
        firsts(vs) == SelectSeq([n \in 1..Len(vs) |-> n],
                                LAMBDA n : \A j \in 1..(n - 1) :
                                    vs[j].advisory_ghsa_id # vs[n].advisory_ghsa_id)
    IN  [g \in 1..Len(heads) |->
            [position |-> vulnerableChanges[heads[g]],
             vulnerabilities |->
                [n \in 1..Len(firsts(all(heads[g]))) |->
                    all(heads[g])[firsts(all(heads[g]))[n]]]]]

\* the header counts of the summary and the markdown renderings
headerCounts(summary) ==
    {<<"added", summary.added>>, <<"removed", summary.removed>>}
    \cup (IF summary.vulnerabilities > 0
          THEN {<<"vulnerabilities", summary.vulnerabilities>>}
               \cup {<<k, summary[k]>> :
                        k \in {f \in {"criticalVulns", "highVulns", "moderateVulns", "lowVulns"} :
                                  summary[f] > 0}}
          ELSE {})

\* the sections formatSummary and formatMarkdown have in common; mark is
\* what the markdown puts before a title
reportSections(res, chs, mark) ==
    LET groups == groupVulnerabilitiesByPackage(chs, res.vulnerableChanges)
        licenses == res.invalidLicenseChanges
    IN  section(mark \o <<"Critical Issues">>, getCriticalIssues(res, chs))
        \o section(mark \o <<"Security Vulnerabilities">>,
                   [g \in 1..Len(groups) |->
                       lineOf(chs, groups[g].position, "vulnerable",
                              groups[g].vulnerabilities)])
        \o section(mark \o <<"License Issues">>,
                   [k \in 1..Len(licenses.forbidden) |->
                       lineOf(chs, licenses.forbidden[k], "forbidden",
                              chs[licenses.forbidden[k]].license)]
                   \o [k \in 1..Len(licenses.unresolved) |->
                          lineOf(chs, licenses.unresolved[k], "unresolved",
                                 licenseOrUnknown(chs[licenses.unresolved[k]].license))]
                   \o [k \in 1..Len(licenses.unlicensed) |->
                          lineOf(chs, licenses.unlicensed[k], "unlicensed", None)])
        \o section(mark \o <<"Denied Dependencies">>,
                   [k \in 1..Len(res.deniedChanges) |->
                       lineOf(chs, res.deniedChanges[k], "denied", None)])

formatMarkdown(res, chs) ==
    [format |-> "markdown",
     status |-> Some(res.hasIssues),
     counts |-> headerCounts(res.summary),
     sections |-> reportSections(res, chs, <<"###">>),
     nextSteps |-> res.hasIssues]

formatSummary(res, chs) ==
    [format |-> "summary",
     status |-> Some(res.hasIssues),
     counts |-> headerCounts(res.summary),
     sections |-> reportSections(res, chs, <<>>),
     nextSteps |-> res.hasIssues]

\* the switch of format
format(fmt, res, chs) ==
    IF fmt = "json" THEN formatJson(res, chs)
    ELSE IF fmt = "table" THEN formatTable(res, chs)
    ELSE IF fmt = "markdown" THEN formatMarkdown(res, chs)
    ELSE formatSummary(res, chs)

\* changes that are flagged in each category, one of them a second version
\* of a flagged package, and a removed one
FormatChange(type, name, version, url, license, vulns) ==
    [change_type |-> type, scope |-> Some("runtime"), license |-> license,
     package_url |-> url, vulnerabilities |-> vulns, name |-> name,
     version |-> version]

FormatChanges ==
    {FormatChange("added", "foo", "1", UrlFoo, Some(<<"MIT">>), <<>>),
     FormatChange("added", "bar", "1", UrlBar, Some(<<"MIT">>),
                  <<Vuln("critical", "G1"), Vuln("low", "G2")>>),
     FormatChange("added", "bar", "2", UrlBar, Some(<<"MIT">>), <<Vuln("high", "G1")>>),
     FormatChange("added", "bar", "1", UrlBar, Some(<<"GPL-3.0">>), <<>>),
     FormatChange("added", "bar", "1", UrlBar, Some(<<"NoSuchLicense">>), <<>>),
     FormatChange("added", "bar", "1", UrlBar, None, <<>>),
     FormatChange("removed", "bar", "1", UrlBar, Some(<<"MIT">>), <<>>)}

FormatConfig ==
    [BaseConfig EXCEPT !.licenses = [allow |-> None, deny |-> Some(<<"GPL-3.0">>)],
                       !.packages = [deny |-> Some(<<DenyFoo>>)]]

InitFormat ==
    /\ config = FormatConfig
    /\ changes = <<>>
    /\ results = NoResults
    /\ pc = "constructed"
    /\ ScorecardNotCalled(<<>>)
    /\ CliNotStarted
    /\ prComments = <<>>
    /\ commenterPc = "idle"
    /\ pendingWrite = NoWrite
    /\ commentCall = NoCall
    /\ callsMade = 0
    /\ outputFormat \in {"json", "table", "markdown", "summary"}
    /\ output = None

AnalyzeForFormat ==
    /\ pc = "constructed"
    /\ \E chs \in SeqsUpTo(FormatChanges, MaxChanges) : callAnalyze(chs)
    /\ pc' = "analyzed"

\* formatter.format(results, comparison)
Format ==
    /\ pc = "analyzed"
    /\ output = None
    /\ output' = Some(format(outputFormat, results, changes))
    /\ UNCHANGED <<outputFormat, engineVars, scorecardVars, cliVars, commenterVars>>

NextFormat == AnalyzeForFormat \/ Format

SpecFormat == InitFormat /\ [][NextFormat]_vars

----------------------------------------------------------------------------
(* ConfigLoader (src/src/config-loader.ts).                                *)
(* A config file is the record of the keys it sets (after the conversion   *)
(* of its keys), or it cannot be read or parsed.  The options are the      *)
(* CliOptions the loader is handed: config says whether a path was given.  *)

\* the built-in configuration; of its deny-list the model keeps GPL-3.0
defaultConfig ==
    [failOnSeverity |-> "low",
     failOnScopes |-> <<"runtime">>,
     licenses |-> [allow |-> None, deny |-> Some(<<"GPL-3.0">>)],
     packages |-> [deny |-> Some(<<>>)],
     groups |-> [deny |-> Some(<<>>)],
     ghsas |-> [allow |-> Some(<<>>)],
     licenseCheckExclusions |-> None,
     licenseCheck |-> TRUE,
     vulnerabilityCheck |-> TRUE,
     warnOnly |-> FALSE]

\* { ...base, ...over }: the keys of over replace those of base, whole
spread(base, over) ==
    [k \in DOMAIN base \cup DOMAIN over |-> IF k \in DOMAIN over THEN over[k] ELSE base[k]]

\* an object with no key
NoKeys == [k \in {} |-> FALSE]

\* options.failOnSeverity && { failOnSeverity: options.failOnSeverity }
severityOption(options) ==
    IF options.failOnSeverity = None \/ options.failOnSeverity = Some("") THEN NoKeys
    ELSE [failOnSeverity |-> CHOOSE x \in options.failOnSeverity : TRUE]

\* options.warnOnly && { warnOnly: options.warnOnly }
warnOnlyOption(options) ==
    IF options.warnOnly = Some(TRUE) THEN [warnOnly |-> TRUE] ELSE NoKeys

\* faulty variant: the two license lists are not compared
validateConfigThrows_ListsUnchecked(cfg) ==
    \/ (~cfg.licenseCheck /\ ~cfg.vulnerabilityCheck)
    \/ cfg.failOnSeverity \notin {"low", "moderate", "high", "critical"}

\* faulty variant: the severity is not tested
validateConfigThrows_AnySeverity(cfg) ==
    \/ ~licensesAreExclusive(cfg.licenses)
    \/ (~cfg.licenseCheck /\ ~cfg.vulnerabilityCheck)

\* validateConfig throws
validateConfigThrows(cfg) ==
    \/ ~licensesAreExclusive(cfg.licenses)
    \/ (~cfg.licenseCheck /\ ~cfg.vulnerabilityCheck)
    \/ cfg.failOnSeverity \notin {"low", "moderate", "high", "critical"}

\* the config load builds before it validates it
mergedConfig(options, file) ==
    spread(spread(spread(defaultConfig, IF options.config THEN file.data ELSE NoKeys),
                  severityOption(options)),
           warnOnlyOption(options))

\* load: it throws if a named file cannot be read or the merged config does
\* not validate, else it returns the merged config
load(options, file) ==
    IF (options.config /\ ~file.readable) \/ validateConfigThrows(mergedConfig(options, file))
    THEN [throws |-> TRUE, config |-> None]
    ELSE [throws |-> FALSE, config |-> Some(mergedConfig(options, file))]

----------------------------------------------------------------------------
(* The command line program (src/src/cli.ts): the action handler from the  *)
(* loading of the config to the exit of the process, one step per await.   *)

\* the options commander hands to the handler for the flags given:
\* --fail-on-severity has the default "low", --warn-only is undefined
\* unless given, --no-license-check and --no-vulnerability-check clear
\* licenseCheck and vulnerabilityCheck
commander(flags) ==
    [config |-> flags.config,
     failOnSeverity |-> IF flags.failOnSeverity = None THEN Some("low")
                        ELSE flags.failOnSeverity,
     warnOnly |-> IF flags.warnOnly THEN Some(TRUE) ELSE None,
     licenseCheck |-> ~flags.noLicenseCheck,
     vulnerabilityCheck |-> ~flags.noVulnerabilityCheck]

\* the CliOptions the handler builds from them, as far as load reads them
cliOptionsOf(options) ==
    [config |-> options.config,
     failOnSeverity |-> options.failOnSeverity,
     warnOnly |-> options.warnOnly]

\* the command lines: with or without a config file, a severity, --warn-only
\* and one of the two --no-... flags
CliFlags ==
    {[config |-> c, failOnSeverity |-> s, warnOnly |-> w,
      noLicenseCheck |-> n[1], noVulnerabilityCheck |-> n[2]] :
        c \in BOOLEAN, s \in {None, Some("high")}, w \in BOOLEAN,
        n \in {<<FALSE, FALSE>>, <<TRUE, FALSE>>, <<FALSE, TRUE>>}}

File(data) == [readable |-> TRUE, data |-> data]

\* a file that sets the severity, warn-only and a denied package; a file
\* with both license lists; a file that cannot be read
CliFiles ==
    {File([failOnSeverity |-> "critical", warnOnly |-> TRUE,
           packages |-> [deny |-> Some(<<DenyFoo>>)]]),
     File([licenses |-> [allow |-> Some(<<"MIT">>), deny |-> Some(<<"GPL-3.0">>)]]),
     NoFile}

\* the options load may be handed by any caller
LoadOptions ==
    {[config |-> c, failOnSeverity |-> s, warnOnly |-> w] :
        c \in BOOLEAN,
        s \in {None, Some(""), Some("high"), Some("severe")},
        w \in {None, Some(FALSE), Some(TRUE)}}

\* the config files load may be pointed at
LoadFiles ==
    CliFiles \cup
    {File([k \in {} |-> FALSE]),
     File([licenses |-> [allow |-> Some(<<"MIT">>), deny |-> None]]),
     File([licenses |-> [allow |-> Some(<<>>), deny |-> Some(<<"GPL-3.0">>)],
           vulnerabilityCheck |-> FALSE]),
     File([licenseCheck |-> FALSE]),
     File([licenseCheck |-> FALSE, vulnerabilityCheck |-> FALSE]),
     File([failOnSeverity |-> "severe"]),
     File([failOnSeverity |-> "moderate", warnOnly |-> FALSE])}

\* the results the handler builds when the comparison lists no change
emptyResults ==
    [vulnerableChanges     |-> <<>>,
     invalidLicenseChanges |-> [forbidden |-> <<>>, unresolved |-> <<>>,
                                unlicensed |-> <<>>],
     deniedChanges         |-> <<>>,
     hasIssues             |-> FALSE,
     summary               |-> [totalChanges |-> 0, added |-> 0, removed |-> 0,
                                vulnerabilities |-> 0, criticalVulns |-> 0,
                                highVulns |-> 0, moderateVulns |-> 0,
                                lowVulns |-> 0]]

\* faulty variant: the verdict is printed but never becomes an exit status
exitStatus_NeverFails(res, cfg) == 0

\* the status the process ends with when the handler reaches its end
exitStatus(res, cfg) == IF res.hasIssues /\ ~cfg.warnOnly THEN 1 ELSE 0

\* the catch block of the handler: the status for a thrown error
catchStatus(kind) == 1

\* the run has its inputs and no config yet
CliStarts(flags, options, file) ==
    /\ config = defaultConfig
    /\ changes = <<>>
    /\ results = NoResults
    /\ pc = "constructed"
    /\ ScorecardNotCalled(<<>>)
    /\ cliPc = "start"
    /\ exitCode = None
    /\ failure = "none"
    /\ argv = flags
    /\ cliOptions = options
    /\ configFile = file
    /\ CommenterNotCalled(<<>>)

InitCli ==
    \E flags \in CliFlags :
        \E file \in IF flags.config THEN CliFiles ELSE {NoFile} :
            CliStarts(flags, cliOptionsOf(commander(flags)), file)

\* load is called by some other caller, with any options
InitLoad ==
    \E options \in LoadOptions :
        \E file \in LoadFiles : CliStarts(NoFlags, options, file)

\* an error of the given kind is thrown and caught by the handler
throws(kind) ==
    /\ failure' = kind
    /\ exitCode' = Some(catchStatus(kind))
    /\ cliPc' = "exited"
    /\ UNCHANGED <<argv, cliOptions, configFile>>

\* the handler reaches its end with the results res
completes(res) ==
    /\ exitCode' = Some(exitStatus(res, config))
    /\ cliPc' = "exited"
    /\ UNCHANGED <<failure, argv, cliOptions, configFile>>

\* the handler goes on to the step at
goesTo(step) ==
    /\ cliPc' = step
    /\ UNCHANGED <<exitCode, failure, argv, cliOptions, configFile>>

\* configLoader.load(cliOptions): the config of the run, or a thrown error
LoadConfig ==
    /\ cliPc = "start"
    /\ LET loaded == load(cliOptions, configFile)
       IN  IF loaded.throws
           THEN throws("config") /\ UNCHANGED config
           ELSE goesTo("loaded") /\ config' \in loaded.config
    /\ UNCHANGED <<changes, results, pc, scorecardVars, commenterVars, formatterVars>>

\* githubClient.getRepository: found, not authenticated, not found, or the
\* network fails
GetRepository ==
    /\ cliPc = "loaded"
    /\ \E response \in {"ok", "unauthorized", "notFound", "network"} :
          IF response = "ok" THEN goesTo("connected")
          ELSE IF response = "unauthorized" THEN throws("authentication")
          ELSE throws("api")
    /\ UNCHANGED <<engineVars, scorecardVars, commenterVars, formatterVars>>

\* githubClient.compareDependencies: the comparison, or an API error
CompareDependencies ==
    /\ cliPc = "connected"
    /\ \/ /\ \E chs \in SeqsUpTo(MixedChanges, MaxChanges) : changes' = chs
          /\ goesTo("compared")
       \/ /\ throws("api")
          /\ UNCHANGED changes
    /\ UNCHANGED <<config, results, pc, scorecardVars, commenterVars, formatterVars>>

\* the changes are analyzed, or the empty results are built; the output is
\* printed; then the summary is posted to the pull request if that was asked
\* for, else the handler ends
Review ==
    /\ cliPc = "compared"
    /\ results' = IF Len(changes) > 0 THEN analyze(config, changes) ELSE emptyResults
    /\ pc' = IF Len(changes) > 0 THEN "analyzed" ELSE pc
    /\ \E commentAsked \in BOOLEAN :
          IF commentAsked
          THEN goesTo("commenting")
          ELSE completes(results')
    /\ UNCHANGED <<config, changes, scorecardVars, commenterVars, formatterVars>>

\* commenter.commentOnPr returns or throws; then the handler ends
CommentOnPr ==
    /\ cliPc = "commenting"
    /\ \/ completes(results)
       \/ throws("comment")
    /\ UNCHANGED <<engineVars, scorecardVars, commenterVars, formatterVars>>

NextCli == LoadConfig \/ GetRepository \/ CompareDependencies \/ Review \/ CommentOnPr

SpecCli == InitCli /\ [][NextCli]_vars

\* load alone, for the options and files of any caller
SpecLoad == InitLoad /\ [][LoadConfig]_vars

----------------------------------------------------------------------------
(* PrCommenter (src/src/pr-comment.ts): calls of commentOnPr on one pull   *)
(* request, each call complete before the next.  The body of a comment is  *)
(* the tuple of its lines, and the id of a comment is its place in the     *)
(* list of the pull request's comments.                                    *)

commentMarker == "<!-- dependency-review-cli -->"

\* the comments one listComments request returns: the call names no page
\* and no page size, so the API answers with its first page of 30
perPage == 30

firstPage(comments) ==
    SubSeq(comments, 1, IF Len(comments) < perPage THEN Len(comments) ELSE perPage)

\* comment.body?.includes(this.commentMarker)
bodyHasMarker(comment) == \E body \in comment.body : Includes(body, commentMarker)

\* comments.find(...): the id of the first comment with the marker, 0 for
\* undefined
findExisting(comments) ==
    IF \E k \in 1..Len(comments) : bodyHasMarker(comments[k])
    THEN CHOOSE k \in 1..Len(comments) :
            bodyHasMarker(comments[k]) /\ \A j \in 1..(k - 1) : ~bodyHasMarker(comments[j])
    ELSE 0

\* `${this.commentMarker}\n${content}`, the content being the rendering of
\* the results
commentBody(hasIssues) ==
    <<commentMarker, IF hasIssues THEN "issues found" ELSE "no issues found">>

\* faulty variant: only mode never returns early
returnsEarly_OnlyNever(mode, hasIssues) == mode = "never"

\* the two early returns of commentOnPr
returnsEarly(mode, hasIssues) ==
    mode = "never" \/ (mode = "on-failure" /\ ~hasIssues)

\* a comment of somebody else
OtherComment == [body |-> Some(<<"LGTM">>)]

\* the most calls of commentOnPr in a row
MaxCalls == 2

\* the pull request has no comment, a comment without a body, or a first
\* page that is one short of full, full, or full with one comment beyond
InitialComments ==
    {<<>>, <<[body |-> None]>>} \cup
    {[k \in 1..n |-> OtherComment] : n \in {perPage - 1, perPage, perPage + 1}}

InitCommenter ==
    /\ config = BaseConfig
    /\ changes = <<>>
    /\ results = NoResults
    /\ pc = "constructed"
    /\ ScorecardNotCalled(<<>>)
    /\ CliNotStarted
    /\ \E comments \in InitialComments : CommenterNotCalled(comments)

\* commentOnPr(options, results) up to its return or its first await
CallCommentOnPr ==
    /\ commenterPc = "idle"
    /\ callsMade < MaxCalls
    /\ callsMade' = callsMade + 1
    /\ \E mode \in {"always", "on-failure", "never"}, hasIssues \in BOOLEAN :
          IF returnsEarly(mode, hasIssues)
          THEN /\ commentCall' = [NoCall EXCEPT !.mode = mode, !.hasIssues = hasIssues,
                                                !.outcome = "returned"]
               /\ UNCHANGED commenterPc
          ELSE /\ commentCall' = [NoCall EXCEPT !.mode = mode, !.hasIssues = hasIssues,
                                                !.lists = 1, !.outcome = "pending"]
               /\ commenterPc' = "listing"
    /\ UNCHANGED <<prComments, pendingWrite, engineVars, scorecardVars, cliVars, formatterVars>>

\* listComments answers: the marker comment of the page is updated, or a
\* comment is created; or the request fails and commentOnPr throws
ListCommentsResponse ==
    /\ commenterPc = "listing"
    /\ \/ LET existingComment == findExisting(firstPage(prComments))
          IN  /\ pendingWrite' =
                    IF existingComment # 0
                    THEN [op |-> "update", comment_id |-> existingComment]
                    ELSE [op |-> "create", comment_id |-> 0]
              /\ commentCall' =
                    IF existingComment # 0 THEN [commentCall EXCEPT !.updates = @ + 1]
                    ELSE [commentCall EXCEPT !.creates = @ + 1]
              /\ commenterPc' = "writing"
       \/ /\ commentCall' = [commentCall EXCEPT !.outcome = "threw"]
          /\ commenterPc' = "idle"
          /\ UNCHANGED pendingWrite
    /\ UNCHANGED <<prComments, callsMade, engineVars, scorecardVars, cliVars, formatterVars>>

\* updateComment or createComment answers and commentOnPr returns; or the
\* request fails and commentOnPr throws
WriteResponse ==
    /\ commenterPc = "writing"
    /\ \/ /\ prComments' =
                IF pendingWrite.op = "update"
                THEN [prComments EXCEPT ![pendingWrite.comment_id] =
                         [body |-> Some(commentBody(commentCall.hasIssues))]]
                ELSE Append(prComments, [body |-> Some(commentBody(commentCall.hasIssues))])
          /\ commentCall' = [commentCall EXCEPT !.outcome = "returned"]
       \/ /\ commentCall' = [commentCall EXCEPT !.outcome = "threw"]
          /\ UNCHANGED prComments
    /\ commenterPc' = "idle"
    /\ pendingWrite' = NoWrite
    /\ UNCHANGED <<callsMade, engineVars, scorecardVars, cliVars, formatterVars>>

NextCommenter == CallCommentOnPr \/ ListCommentsResponse \/ WriteResponse

SpecCommenter == InitCommenter /\ [][NextCommenter]_vars

----------------------------------------------------------------------------
(* Properties of analyze *)

Analyzed == pc = "analyzed"

\* the result array holds a reference to entry i of the change list
Holds(arr, i) == \E k \in 1..Len(arr) : arr[k] = i

\* how many times the result array holds a reference to entry i
Count(arr, i) == Cardinality({k \in 1..Len(arr) : arr[k] = i})

Entries == 1..Len(changes)

Forbidden == results.invalidLicenseChanges.forbidden

Unresolved == results.invalidLicenseChanges.unresolved

Unlicensed == results.invalidLicenseChanges.unlicensed

\* C1: a removed change is in none of vulnerableChanges, forbidden,
\* unresolved, unlicensed and deniedChanges, whatever the configuration.
C1_RemovedNeverFlagged ==
    Analyzed =>
        \A i \in Entries :
            changes[i].change_type = "removed" =>
                /\ ~Holds(results.vulnerableChanges, i)
                /\ ~Holds(Forbidden, i)
                /\ ~Holds(Unresolved, i)
                /\ ~Holds(Unlicensed, i)
                /\ ~Holds(results.deniedChanges, i)

\* a removed change was analyzed next to its added twin, which is flagged as
\* vulnerable, forbidden and denied
C1_Witness ==
    /\ Analyzed
    /\ \E i, j \in Entries :
          /\ changes[i].change_type = "removed"
          /\ changes[j] = [changes[i] EXCEPT !.change_type = "added"]
          /\ Holds(results.vulnerableChanges, j)
          /\ Holds(Forbidden, j)
          /\ Holds(results.deniedChanges, j)
          /\ ~Holds(results.vulnerableChanges, i)

\* C2: with warnOnly set hasIssues is false, and the flagged sets are the
\* ones the same change list gets with warnOnly unset.
C2_WarnOnlyNeverFails ==
    (Analyzed /\ config.warnOnly) =>
        LET strict == analyze([config EXCEPT !.warnOnly = FALSE], changes)
        IN  /\ results.hasIssues = FALSE
            /\ results.vulnerableChanges = strict.vulnerableChanges
            /\ results.invalidLicenseChanges = strict.invalidLicenseChanges
            /\ results.deniedChanges = strict.deniedChanges

\* warnOnly is set and the vulnerable, forbidden, unresolved and denied sets
\* are all non-empty
C2_Witness ==
    /\ Analyzed
    /\ config.warnOnly
    /\ results.hasIssues = FALSE
    /\ Len(results.vulnerableChanges) > 0
    /\ Len(Forbidden) > 0
    /\ Len(Unresolved) > 0
    /\ Len(results.deniedChanges) > 0

\* C3: hasIssues is true exactly when warnOnly is unset and one of
\* vulnerableChanges, forbidden, unresolved, deniedChanges is non-empty;
\* unlicensed changes alone give hasIssues = false.
C3_HasIssuesIff ==
    Analyzed =>
        /\ results.hasIssues <=>
              /\ ~config.warnOnly
              /\ \/ Len(results.vulnerableChanges) > 0
                 \/ Len(Forbidden) > 0
                 \/ Len(Unresolved) > 0
                 \/ Len(results.deniedChanges) > 0
        /\ ( /\ Len(Unlicensed) > 0
             /\ Len(results.vulnerableChanges) = 0
             /\ Len(Forbidden) = 0
             /\ Len(Unresolved) = 0
             /\ Len(results.deniedChanges) = 0 ) => ~results.hasIssues

\* warnOnly is unset and unlicensed is the only non-empty flagged set
C3_Witness ==
    /\ Analyzed
    /\ ~config.warnOnly
    /\ Len(Unlicensed) > 0
    /\ Len(results.vulnerableChanges) = 0
    /\ Len(Forbidden) = 0
    /\ Len(Unresolved) = 0
    /\ Len(results.deniedChanges) = 0
    /\ ~results.hasIssues

\* the order low < moderate < high < critical
SeverityAtLeast(s, t) ==
    LET order == <<"low", "moderate", "high", "critical">>
        rank(x) == CHOOSE k \in 1..4 : order[k] = x
    IN  rank(s) >= rank(t)

\* the advisory is in the exempted (ghsas.allow) set
Exempted(id) == \E l \in config.ghsas.allow : \E k \in 1..Len(l) : l[k] = id

\* the change has a vulnerability that is not exempted and at or above the
\* threshold
HasQualifyingVuln(change) ==
    \E k \in 1..Len(change.vulnerabilities) :
        /\ ~Exempted(change.vulnerabilities[k].advisory_ghsa_id)
        /\ SeverityAtLeast(change.vulnerabilities[k].severity, config.failOnSeverity)

\* the change has no scope, or its scope is one of failOnScopes
PassesScopeFilter(change) ==
    \/ change.scope = None
    \/ \E s \in change.scope : \E k \in 1..Len(config.failOnScopes) :
          config.failOnScopes[k] = s

\* C4: with vulnerability checking enabled, an added change that passes the
\* scope filter is in vulnerableChanges exactly when one of its
\* vulnerabilities is not exempted and has a severity >= failOnSeverity; with
\* vulnerability checking disabled vulnerableChanges is empty.
C4_VulnerableIff ==
    Analyzed =>
        /\ config.vulnerabilityCheck =>
              \A i \in Entries :
                  (changes[i].change_type = "added" /\ PassesScopeFilter(changes[i])) =>
                      (Holds(results.vulnerableChanges, i) <=> HasQualifyingVuln(changes[i]))
        /\ ~config.vulnerabilityCheck => results.vulnerableChanges = <<>>

\* an added change in scope has one exempted vulnerability above the
\* threshold and one unexempted vulnerability below it, and is not flagged
C4_Witness ==
    /\ Analyzed
    /\ config.vulnerabilityCheck
    /\ \E i \in Entries :
          /\ changes[i].change_type = "added"
          /\ PassesScopeFilter(changes[i])
          /\ \E k \in 1..Len(changes[i].vulnerabilities) :
                /\ Exempted(changes[i].vulnerabilities[k].advisory_ghsa_id)
                /\ SeverityAtLeast(changes[i].vulnerabilities[k].severity,
                                   config.failOnSeverity)
          /\ \E k \in 1..Len(changes[i].vulnerabilities) :
                /\ ~Exempted(changes[i].vulnerabilities[k].advisory_ghsa_id)
                /\ ~SeverityAtLeast(changes[i].vulnerabilities[k].severity,
                                    config.failOnSeverity)
          /\ ~Holds(results.vulnerableChanges, i)

\* C5: with vulnerability checking enabled, an added change with a qualifying
\* vulnerability is kept out of vulnerableChanges only when its scope is
\* present and not in failOnScopes; without a scope it is always flagged.
C5_ScopeFilter ==
    (Analyzed /\ config.vulnerabilityCheck) =>
        \A i \in Entries :
            (changes[i].change_type = "added" /\ HasQualifyingVuln(changes[i])) =>
                /\ ~Holds(results.vulnerableChanges, i) <=>
                      /\ changes[i].scope # None
                      /\ \A s \in changes[i].scope :
                            \A k \in 1..Len(config.failOnScopes) :
                                config.failOnScopes[k] # s
                /\ changes[i].scope = None => Holds(results.vulnerableChanges, i)

\* failOnScopes is empty and an added change without a scope is flagged,
\* next to a scoped change with the same vulnerabilities that is not
C5_Witness ==
    /\ Analyzed
    /\ config.vulnerabilityCheck
    /\ config.failOnScopes = <<>>
    /\ \E i, j \in Entries :
          /\ changes[i].change_type = "added"
          /\ changes[i].scope = None
          /\ Holds(results.vulnerableChanges, i)
          /\ changes[j] = [changes[i] EXCEPT !.scope = Some("runtime")]
          /\ ~Holds(results.vulnerableChanges, j)

\* the package matches a license-check-exclusion rule
Excluded(change) == isPackageInLicenseExclusions(config, change.package_url)

\* the change has a license string other than the NOASSERTION sentinel
HasLicenseString(change) ==
    /\ change.license # None
    /\ change.license # Some(<<>>)
    /\ change.license # Some(<<"NOASSERTION">>)

LicenseOf(change) == CHOOSE l \in change.license : TRUE

InNoLicenseCategory(i) ==
    ~Holds(Forbidden, i) /\ ~Holds(Unresolved, i) /\ ~Holds(Unlicensed, i)

\* C6: with license checking enabled, an added change that matches a
\* license-check exclusion is in none of forbidden, unresolved, unlicensed,
\* whatever its license (an absent license and NOASSERTION included).
C6_ExcludedSkipped ==
    (Analyzed /\ config.licenseCheck) =>
        \A i \in Entries :
            (changes[i].change_type = "added" /\ Excluded(changes[i])) =>
                InNoLicenseCategory(i)

\* C7: with license checking enabled, an added, non-excluded change whose
\* license is null or NOASSERTION is placed in unlicensed, once, and in no
\* other category, whatever the allow-list and the deny-list.
C7_AbsentIsUnlicensed ==
    (Analyzed /\ config.licenseCheck) =>
        \A i \in Entries :
            ( /\ changes[i].change_type = "added"
              /\ ~Excluded(changes[i])
              /\ changes[i].license \in {None, Some(<<"NOASSERTION">>)} ) =>
                /\ Count(Unlicensed, i) = 1
                /\ ~Holds(Forbidden, i)
                /\ ~Holds(Unresolved, i)

\* under a non-empty allow-list and a non-empty exclusion list, a
\* non-excluded NOASSERTION change and a non-excluded change without a
\* license are both unlicensed
C7_Witness ==
    /\ Analyzed
    /\ config.licenseCheck
    /\ NonEmptyList(config.licenses.allow)
    /\ NonEmptyList(config.licenseCheckExclusions)
    /\ \E i, j \in Entries :
          /\ changes[i].change_type = "added" /\ changes[j].change_type = "added"
          /\ ~Excluded(changes[i]) /\ ~Excluded(changes[j])
          /\ changes[i].license = Some(<<"NOASSERTION">>)
          /\ changes[j].license = None
          /\ Holds(Unlicensed, i) /\ Holds(Unlicensed, j)

\* C8: no entry of the change list is placed in more than one of forbidden,
\* unresolved, unlicensed, nor twice in one of them.
C8_CategoriesDisjoint ==
    Analyzed =>
        \A i \in Entries :
            Count(Forbidden, i) + Count(Unresolved, i) + Count(Unlicensed, i) <= 1

\* two entries of one list were placed in two different categories, one of
\* them a NOASSERTION change under a configured license list
C8_Witness ==
    /\ Analyzed
    /\ \E i, j \in Entries :
          /\ i # j
          /\ changes[i].license = Some(<<"NOASSERTION">>)
          /\ Holds(Unlicensed, i)
          /\ Holds(Forbidden, j) \/ Holds(Unresolved, j)

\* the entry is classified as it is when it is the only entry of the list
ClassifiedAsAlone(j) ==
    LET alone == analyze(config, <<changes[j]>>).invalidLicenseChanges
    IN  /\ Count(Forbidden, j) = Len(alone.forbidden)
        /\ Count(Unresolved, j) = Len(alone.unresolved)
        /\ Count(Unlicensed, j) = Len(alone.unlicensed)

\* C9: with a non-empty allow-list or deny-list, an added, non-excluded
\* change whose license string is not a valid SPDX expression is placed in
\* unresolved (and only there), and the entries after it are still
\* classified.
C9_InvalidIsUnresolved ==
    (Analyzed /\ config.licenseCheck) =>
        \A i \in Entries :
            ( /\ changes[i].change_type = "added"
              /\ ~Excluded(changes[i])
              /\ HasLicenseString(changes[i])
              /\ parseThrows(LicenseOf(changes[i]))
              /\ \/ NonEmptyList(config.licenses.allow)
                 \/ NonEmptyList(config.licenses.deny) ) =>
                /\ Count(Unresolved, i) = 1
                /\ ~Holds(Forbidden, i)
                /\ ~Holds(Unlicensed, i)
                /\ \A j \in Entries : j > i => ClassifiedAsAlone(j)

\* a change with an invalid license is unresolved and the entry after it is
\* forbidden
C9_Witness ==
    /\ Analyzed
    /\ Len(changes) = 2
    /\ HasLicenseString(changes[1])
    /\ parseThrows(LicenseOf(changes[1]))
    /\ Unresolved = <<1>>
    /\ Forbidden = <<2>>

\* the license is one of the alternatives of the expression
SatisfiedBy(expr, license) ==
    \E k \in 1..Len(expr) : k % 2 = 1 /\ expr[k] = license

----------------------------------------------------------------------------
(* Properties of the denial filter, the summary, the threshold and of       *)
(* repeated evaluation                                                      *)

\* the strings of an optional list of strings, as a set
Configured(opt) == UNION {{l[k] : k \in 1..Len(l)} : l \in opt}

\* sub occurs in s at some offset
Contains(s, sub) ==
    \E off \in 0..Len(s) :
        /\ off + Len(sub) <= Len(s)
        /\ \A m \in 1..Len(sub) : s[off + m] = sub[m]

\* s begins with p
HasPrefix(s, p) == Len(p) <= Len(s) /\ \A m \in 1..Len(p) : s[m] = p[m]

\* C11: whatever licenseCheck and vulnerabilityCheck are, an added change is
\* in deniedChanges exactly when its package identifier contains a denied
\* package string or starts with a denied group prefix; with both denial
\* sets empty deniedChanges is empty.
C11_DeniedIff ==
    Analyzed =>
        LET deniedPackages == Configured(config.packages.deny)
            deniedGroups   == Configured(config.groups.deny)
        IN  /\ \A i \in Entries :
                  changes[i].change_type = "added" =>
                      ( Holds(results.deniedChanges, i) <=>
                          \/ \E p \in deniedPackages : Contains(changes[i].package_url, p)
                          \/ \E g \in deniedGroups : HasPrefix(changes[i].package_url, g) )
            /\ (deniedPackages = {} /\ deniedGroups = {}) => results.deniedChanges = <<>>

\* both checks are switched off, one added change is denied by its group
\* prefix, and another that holds the group string further in is not
C11_Witness ==
    /\ Analyzed
    /\ ~config.licenseCheck
    /\ ~config.vulnerabilityCheck
    /\ \E i, j \in Entries :
          /\ changes[i].change_type = "added"
          /\ changes[j].change_type = "added"
          /\ \E g \in Configured(config.groups.deny) :
                /\ HasPrefix(changes[i].package_url, g)
                /\ Contains(changes[j].package_url, g)
                /\ ~HasPrefix(changes[j].package_url, g)
          /\ Holds(results.deniedChanges, i)
          /\ ~Holds(results.deniedChanges, j)

\* the number of entries of the change list of the given kind
RECURSIVE KindCount(_, _)
KindCount(kind, n) ==
    IF n = 0 THEN 0
    ELSE (IF changes[n].change_type = kind THEN 1 ELSE 0) + KindCount(kind, n - 1)

\* the number of vulnerabilities of entry i whose severity is in sevs
VulnsOf(i, sevs) ==
    Cardinality({k \in 1..Len(changes[i].vulnerabilities) :
                    changes[i].vulnerabilities[k].severity \in sevs})

\* the vulnerabilities with a severity in sevs, summed over the entries
\* 1..n that vulnerableChanges holds
RECURSIVE FlaggedVulns(_, _)
FlaggedVulns(sevs, n) ==
    IF n = 0 THEN 0
    ELSE (IF Holds(results.vulnerableChanges, n) THEN VulnsOf(n, sevs) ELSE 0)
         + FlaggedVulns(sevs, n - 1)

\* C12: totalChanges is the length of the full change list and equals
\* added + removed; each vulnerability count is taken over the flagged
\* changes only, every one of their vulnerabilities counted; vulnerabilities
\* is the sum of the four severity counts.
C12_SummaryCounts ==
    Analyzed =>
        LET sum == results.summary
        IN  /\ sum.totalChanges = Len(changes)
            /\ sum.added = KindCount("added", Len(changes))
            /\ sum.removed = KindCount("removed", Len(changes))
            /\ sum.totalChanges = sum.added + sum.removed
            /\ sum.criticalVulns = FlaggedVulns({"critical"}, Len(changes))
            /\ sum.highVulns = FlaggedVulns({"high"}, Len(changes))
            /\ sum.moderateVulns = FlaggedVulns({"moderate"}, Len(changes))
            /\ sum.lowVulns = FlaggedVulns({"low"}, Len(changes))
            /\ sum.vulnerabilities = FlaggedVulns(Severities, Len(changes))
            /\ sum.vulnerabilities =
                  sum.criticalVulns + sum.highVulns + sum.moderateVulns + sum.lowVulns

\* a flagged change brings a vulnerability that is exempted or below the
\* threshold into the counts, while a change with vulnerabilities that is not
\* flagged brings none
C12_Witness ==
    /\ Analyzed
    /\ \E i, j \in Entries :
          /\ Holds(results.vulnerableChanges, i)
          /\ \E k \in 1..Len(changes[i].vulnerabilities) :
                LET v == changes[i].vulnerabilities[k]
                IN  \/ Exempted(v.advisory_ghsa_id)
                    \/ ~SeverityAtLeast(v.severity, config.failOnSeverity)
          /\ ~Holds(results.vulnerableChanges, j)
          /\ Len(changes[j].vulnerabilities) > 0
    /\ results.summary.vulnerabilities = 2

\* C13: with the change list and all other fields of the config held, every
\* change flagged under the threshold in force is flagged under each lower
\* threshold.
C13_ThresholdMonotone ==
    Analyzed =>
        \A lower \in Severities \ {config.failOnSeverity} :
            SeverityAtLeast(config.failOnSeverity, lower) =>
                LET under == analyze([config EXCEPT !.failOnSeverity = lower], changes)
                IN  \A i \in Entries :
                        Holds(results.vulnerableChanges, i) =>
                            Holds(under.vulnerableChanges, i)

\* under the threshold in force one change is flagged and another is not,
\* and under a lower threshold both are
C13_Witness ==
    /\ Analyzed
    /\ \E lower \in Severities \ {config.failOnSeverity} :
          /\ SeverityAtLeast(config.failOnSeverity, lower)
          /\ LET under == analyze([config EXCEPT !.failOnSeverity = lower], changes)
             IN  \E i, j \in Entries :
                    /\ Holds(results.vulnerableChanges, i)
                    /\ ~Holds(results.vulnerableChanges, j)
                    /\ Holds(under.vulnerableChanges, i)
                    /\ Holds(under.vulnerableChanges, j)

----------------------------------------------------------------------------
(* Properties of the scorecard service *)

Lookups == 1..Len(lookups)

\* the lookup has been called and has not yet returned
Outstanding(i) == lookups[i].state \in {"projectUrl", "owner", "waiter"}

\* the lookup has returned an entry or thrown
Over(i) == lookups[i].state \in {"settled", "rejected"}

\* the batch of five the change belongs to
BatchOf(i) == (i - 1) \div 5 + 1

\* C15: within one call of getScorecardLevels no two outbound scorecard
\* requests are for the same repository identity, whether a request
\* succeeded or not, and all entries of one identity have the same scorecard.
C15_OneRequestPerIdentity ==
    /\ \A q1, q2 \in 1..Len(requests) :
          requests[q1].repositoryUrl = requests[q2].repositoryUrl => q1 = q2
    /\ levels = "fulfilled" =>
          \A i, j \in Lookups :
              ( /\ lookups[i].repositoryUrl # <<>>
                /\ lookups[i].repositoryUrl = lookups[j].repositoryUrl )
              => lookups[i].scorecard = lookups[j].scorecard

\* C16: at most five lookups are outstanding at any moment, and no lookup
\* of a batch has been called while a lookup of an earlier batch is not over.
C16_AtMostFiveOutstanding ==
    /\ Cardinality({i \in Lookups : Outstanding(i)}) <= 5
    /\ \A i, j \in Lookups :
          (BatchOf(j) < BatchOf(i) /\ lookups[i].state # "idle") => Over(j)

\* the scorecard request that served the lookup ended without a scorecard
ServedByFailure(i) ==
    /\ lookups[i].request # 0
    /\ ~requests[lookups[i].request].inFlight
    /\ requests[lookups[i].request].value = None

\* C17: getScorecardLevels never rejects; once no response is awaited it is
\* fulfilled with an entry for every change, and the scorecard of an entry is
\* null exactly when its change has no repository identity (none given and
\* none obtained from deps.dev) or the scorecard request that served it
\* failed.
C17_NeverRejects ==
    /\ levels # "rejected"
    /\ \A i \in Lookups : lookups[i].state # "rejected"
    /\ (levels # "notCalled" /\ \A i \in Lookups : ~Outstanding(i)) =>
          /\ levels = "fulfilled"
          /\ \E data \in scorecardData :
                /\ Len(data.dependencies) = Len(scorecardChanges)
                /\ \A i \in Lookups :
                      data.dependencies[i].scorecard = None
                          <=> (lookups[i].repositoryUrl = <<>> \/ ServedByFailure(i))

\* the call is fulfilled with one entry nulled by deps.dev, one nulled by a
\* failed scorecard request and one that carries a scorecard
C17_Witness ==
    /\ levels = "fulfilled"
    /\ \E data \in scorecardData :
          \E i, j, k \in Lookups :
              /\ scorecardChanges[i].source_repository_url = None
              /\ scorecardChanges[i].ecosystem # "actions"
              /\ lookups[i].repositoryUrl = <<>>
              /\ data.dependencies[i].scorecard = None
              /\ ServedByFailure(j)
              /\ data.dependencies[j].scorecard = None
              /\ data.dependencies[k].scorecard # None

\* C18: the value getScorecardLevels is fulfilled with has one entry per
\* change of the list, the i-th entry carrying the i-th change.
C18_OrderPreserved ==
    levels = "fulfilled" =>
        \E data \in scorecardData :
            /\ Len(data.dependencies) = Len(scorecardChanges)
            /\ \A i \in 1..Len(scorecardChanges) :
                  data.dependencies[i].change = scorecardChanges[i]

\* a list longer than one batch is answered; its first lookup got its
\* scorecard from the cache, so it returned after a later lookup had, and
\* its first two changes differ
C18_Witness ==
    /\ levels = "fulfilled"
    /\ Len(scorecardChanges) > 5
    /\ scorecardChanges[1] # scorecardChanges[2]
    /\ lookups[1].request = 0
    /\ lookups[1].scorecard # None
    /\ \E data \in scorecardData : data.dependencies[1].change = scorecardChanges[1]

----------------------------------------------------------------------------
(* Properties of the command line program *)

Exited == cliPc = "exited"

\* some flagged set of the results is non-empty
SomethingFlagged ==
    \/ Len(results.vulnerableChanges) > 0
    \/ Len(Forbidden) > 0
    \/ Len(Unresolved) > 0
    \/ Len(results.deniedChanges) > 0

\* C19: a run that ends without a thrown error exits with a non-zero status
\* when hasIssues is true and warnOnly is not set, and with status zero
\* otherwise: so with warnOnly set and flagged changes, and so when the
\* comparison lists no change.
C19_ExitStatus ==
    (Exited /\ failure = "none") =>
        /\ \E status \in exitCode :
              status # 0 <=> (results.hasIssues /\ ~config.warnOnly)
        /\ config.warnOnly => exitCode = Some(0)
        /\ Len(changes) = 0 => exitCode = Some(0)

\* a run with warnOnly set and flagged changes has exited with status zero
C19_Witness ==
    /\ Exited
    /\ failure = "none"
    /\ config.warnOnly
    /\ SomethingFlagged
    /\ exitCode = Some(0)

\* C20: the exit status is 1 for policy issues, 2 for a configuration or
\* authentication error and 3 for an API error; a configuration or API error
\* never exits with 1.
C20_DistinctExitCodes ==
    Exited =>
        /\ (failure = "none" /\ results.hasIssues /\ ~config.warnOnly) => exitCode = Some(1)
        /\ failure \in {"config", "authentication"} => exitCode = Some(2)
        /\ failure = "api" => exitCode = Some(3)

----------------------------------------------------------------------------
(* Properties of the config loader and of the command line flags *)

\* the config file is named by the options
FileNamed == cliOptions.config

\* the config file is used and sets the key
FileSets(key) == FileNamed /\ configFile.readable /\ key \in DOMAIN configFile.data

\* the value of a key the options do not carry: the file's, else the default
FileOrDefault(key) == IF FileSets(key) THEN configFile.data[key] ELSE defaultConfig[key]

\* the severity of the configuration that is validated
RequestedSeverity ==
    IF \E x \in cliOptions.failOnSeverity : x # "" THEN CHOOSE x \in cliOptions.failOnSeverity : TRUE
    ELSE FileOrDefault("failOnSeverity")

\* load has returned a config / load has thrown
LoadReturned == cliPc = "loaded"

LoadThrew == cliPc = "exited" /\ failure = "config"

NonEmpty(opt) == \E l \in opt : l # <<>>

C22_ChecksAndSeverity ==
    /\ LoadReturned =>
          /\ config.licenseCheck \/ config.vulnerabilityCheck
          /\ config.failOnSeverity \in Severities
    /\ ( /\ cliPc # "start"
         /\ ~FileOrDefault("licenseCheck")
         /\ ~FileOrDefault("vulnerabilityCheck") ) => LoadThrew
    /\ (cliPc # "start" /\ RequestedSeverity \notin Severities) => LoadThrew

\* load threw for a readable file that sets an unknown severity and nothing
\* else, the options giving none
C22_Witness ==
    /\ LoadThrew
    /\ FileSets("failOnSeverity")
    /\ DOMAIN configFile.data = {"failOnSeverity"}
    /\ cliOptions.failOnSeverity = None
    /\ RequestedSeverity \notin Severities

\* C23: in a run with --no-license-check the config that is loaded has
\* licenseCheck = false and the results have empty forbidden, unresolved and
\* unlicensed sets; with --no-vulnerability-check vulnerabilityCheck is false
\* and vulnerableChanges is empty.
C23_NoCheckFlags ==
    /\ (argv.noLicenseCheck /\ cliPc \notin {"start"} /\ failure # "config") =>
          /\ ~config.licenseCheck
          /\ Forbidden = <<>> /\ Unresolved = <<>> /\ Unlicensed = <<>>
    /\ (argv.noVulnerabilityCheck /\ cliPc \notin {"start"} /\ failure # "config") =>
          /\ ~config.vulnerabilityCheck
          /\ results.vulnerableChanges = <<>>

\* C29: a severity or --warn-only given on the command line is the one of
\* the loaded config; without the flag, a fail-on-severity or warn-only value
\* that the config file sets is the one of the loaded config.
C29_Precedence ==
    LoadReturned =>
        /\ \A x \in argv.failOnSeverity : config.failOnSeverity = x
        /\ argv.warnOnly => config.warnOnly
        /\ (argv.failOnSeverity = None /\ FileSets("failOnSeverity")) =>
              config.failOnSeverity = configFile.data.failOnSeverity
        /\ (~argv.warnOnly /\ FileSets("warnOnly")) =>
              config.warnOnly = configFile.data.warnOnly


----------------------------------------------------------------------------
(* Claims about PrCommenter, under SpecCommenter.                          *)

\* the call of commentOnPr last made has returned or thrown
CallOver == callsMade > 0 /\ commenterPc = "idle"

Writes == commentCall.updates + commentCall.creates

\* the call was made with mode never, or with mode on-failure and results
\* that have no issues
NoCommentAsked ==
    \/ commentCall.mode = "never"
    \/ commentCall.mode = "on-failure" /\ ~commentCall.hasIssues

MarkerComments == {k \in 1..Len(prComments) : bodyHasMarker(prComments[k])}

\* C24 as stated: a call with mode never, or with mode on-failure and no
\* issues, requests nothing of the remote API, and every other call lists
\* the comments exactly once and then requests exactly one write.  A call
\* whose listComments request fails throws with no write requested.
C24_AsStated ==
    CallOver =>
        IF NoCommentAsked
        THEN commentCall.lists = 0 /\ Writes = 0
        ELSE commentCall.lists = 1 /\ Writes = 1

\* C24, amended: a call with mode never, or with mode on-failure and no
\* issues, requests nothing of the remote API and returns; every other call
\* lists the comments exactly once, requests no write before the list is
\* answered, and then requests exactly one write (a create or an update)
\* unless the listing failed, when it requests none and throws.
C24_ListOnceWriteOnce ==
    /\ Writes <= commentCall.lists
    /\ commenterPc = "listing" => commentCall.lists = 1 /\ Writes = 0
    /\ commenterPc = "writing" => commentCall.lists = 1 /\ Writes = 1
    /\ CallOver =>
        IF NoCommentAsked
        THEN commentCall.lists = 0 /\ Writes = 0 /\ commentCall.outcome = "returned"
        ELSE /\ commentCall.lists = 1
             /\ \/ Writes = 1
                \/ Writes = 0 /\ commentCall.outcome = "threw"
             /\ commentCall.outcome = "returned" => Writes = 1

\* a call with mode on-failure and issues has listed, written and returned
C24_Witness ==
    /\ CallOver
    /\ commentCall.mode = "on-failure" /\ commentCall.hasIssues
    /\ commentCall.lists = 1 /\ commentCall.creates = 1
    /\ commentCall.outcome = "returned"

\* C30: on a pull request that started with no marker comment, at most one
\* comment carries the marker after any number of calls of commentOnPr made
\* one after the other.  With a first page full of other comments the
\* marker comment of the first call is not listed to the second call, which
\* creates another.
C30_AtMostOneMarkerComment == Cardinality(MarkerComments) <= 1


----------------------------------------------------------------------------
(* The exclusion rule, under SpecExclusions.                               *)

\* id lies under the exclusion taken as a path prefix that ends at a '/' or
\* at the version boundary
SubPathOf(id, excluded) ==
    /\ Len(excluded) < Len(id)
    /\ HasPrefix(id, excluded)
    /\ \/ Len(excluded) > 0 /\ excluded[Len(excluded)] = "/"
       \/ id[Len(excluded) + 1] \in {"/", "@"}

\* the identifier or the identifier without its version equals an exclusion
\* or is a sub-path of it
ExemptAsPath(packageUrl) ==
    \E list \in config.licenseCheckExclusions :
        \E k \in 1..Len(list) :
            \E id \in {packageUrl, splitAtFirst(packageUrl)} :
                id = list[k] \/ SubPathOf(id, list[k])

\* C28: an added package under a denied license is kept out of the license
\* categories if and only if its identifier, or its identifier without the
\* version, equals an exclusion or is a sub-path of one; n/foobar@1 against
\* the exclusion n/foo is not exempted.  The engine tests a bare startsWith
\* and exempts it.
C28_ExemptIffSubPath ==
    Analyzed =>
        \A i \in Entries :
            changes[i].license = Some(<<"GPL-3.0">>) =>
                (InNoLicenseCategory(i) <=> ExemptAsPath(changes[i].package_url))


----------------------------------------------------------------------------
(* The pending map and the cache of ScorecardService, under SpecScorecard. *)

\* the request is in the pending map under the key of its repository
Registered(q) == <<cacheKey(requests[q].repositoryUrl), q>> \in pendingRequests

\* C26: a lookup that finds neither a cached nor a pending entry has its
\* request in the pending map from before it first suspends, and the entry
\* is removed once the request has settled, with a scorecard or with null;
\* only a scorecard is cached, under the key of its repository, so the
\* cache never holds null; and the pending map is empty when
\* getScorecardLevels returns.
C26_PendingAndCache ==
    /\ \A i \in Lookups :
          lookups[i].state = "owner" =>
              /\ requests[lookups[i].request].inFlight
              /\ requests[lookups[i].request].repositoryUrl = lookups[i].repositoryUrl
              /\ Registered(lookups[i].request)
    /\ \A q \in 1..Len(requests) :
          /\ Registered(q) <=> requests[q].inFlight
          /\ \E i \in Lookups : lookups[i].request = q /\ (requests[q].inFlight <=> lookups[i].state = "owner")
    /\ \A e \in pendingRequests : e[2] \in 1..Len(requests) /\ Registered(e[2])
    /\ \A e \in cache :
          \E q \in 1..Len(requests) :
              /\ ~requests[q].inFlight
              /\ e[1] = cacheKey(requests[q].repositoryUrl)
              /\ requests[q].value = Some(e[2])
    /\ \A q \in 1..Len(requests) :
          (~requests[q].inFlight /\ requests[q].value # None) =>
              <<cacheKey(requests[q].repositoryUrl), CHOOSE v \in requests[q].value : TRUE>> \in cache
    /\ levels # "pending" => pendingRequests = {}

\* getScorecardLevels has returned after one request ended with a scorecard
\* and another with null: the first is cached, the second is not, and
\* neither is pending
C26_Witness ==
    /\ levels = "fulfilled"
    /\ pendingRequests = {}
    /\ \E q1, q2 \in 1..Len(requests) :
          /\ requests[q1].value # None
          /\ mapHas(cache, cacheKey(requests[q1].repositoryUrl))
          /\ requests[q2].value = None
          /\ ~mapHas(cache, cacheKey(requests[q2].repositoryUrl))


----------------------------------------------------------------------------
(* The scorecard enrichment and the verdict, under SpecEnriched.           *)

\* the same engine with the enrichment switched off
WithoutScorecard == [config EXCEPT !.showOpenSSFScorecard = FALSE]

AddedChanges == SelectSeq(changes, LAMBDA c : c.change_type = "added")

----------------------------------------------------------------------------
(* The renderings, under SpecFormat.                                       *)

\* the flagged changes of each category
Flagged ==
    [vulnerable |-> results.vulnerableChanges,
     forbidden  |-> results.invalidLicenseChanges.forbidden,
     unresolved |-> results.invalidLicenseChanges.unresolved,
     unlicensed |-> results.invalidLicenseChanges.unlicensed,
     denied     |-> results.deniedChanges]

\* the rendering has a line for the change of position i under the category
ShownUnder(rendering, category, i) ==
    \E s \in 1..Len(rendering.sections) :
        \E l \in 1..Len(rendering.sections[s].lines) :
            /\ rendering.sections[s].lines[l].category = category
            /\ rendering.sections[s].lines[l].package = <<changes[i].name, changes[i].version>>

\* the rendering shows the counts of added and removed changes and, when
\* there are any, of the vulnerabilities
CountsShown(rendering) ==
    /\ <<"added", results.summary.added>> \in rendering.counts
    /\ <<"removed", results.summary.removed>> \in rendering.counts
    /\ results.summary.vulnerabilities > 0 =>
          <<"vulnerabilities", results.summary.vulnerabilities>> \in rendering.counts

\* C25: the table, summary and markdown renderings show every change of
\* vulnerableChanges, forbidden, unresolved, unlicensed and deniedChanges
\* under a section for its category, and the aggregate counts.  The table
\* has no section for unlicensed and denied changes.
C25_EveryFlaggedChangeShown ==
    \A rendering \in output :
        rendering.format \in {"table", "summary", "markdown"} =>
            /\ CountsShown(rendering)
            /\ \A category \in DOMAIN Flagged :
                  \A k \in 1..Len(Flagged[category]) :
                      ShownUnder(rendering, category, Flagged[category][k])

====
